---- MODULE Spec2Model ----
(***************************************************************************)
(* State-machine model of the asynchronous (VRF) settlement engine of the  *)
(* agent_casino program: the house pool, the liquidity operations and the  *)
(* Request / Settle / Expire / Close life cycle of a VrfRequest.           *)
(*                                                                         *)
(* Conventions                                                             *)
(*  - every instruction is one atomic action, enabled when its handler    *)
(*    returns Ok; a failing instruction leaves every account unchanged     *)
(*    (the ledger reverts the transaction), which is a stuttering step;    *)
(*    its error code is the value of the handler's *_result operator;      *)
(*  - `last` names the last committed instruction;                         *)
(*  - `lamports` are account balances net of rent deposits and transaction *)
(*    fees, which the program does not compute;                            *)
(*  - amounts stay far below 2^31 in the model, so the None branch of      *)
(*    checked_add / checked_mul is not reachable and is not modelled; the  *)
(*    None branch of checked_sub is;                                       *)
(*  - a 32-bit word is a record [hi, lo] of two 16-bit halves;             *)
(*  - the pure functions are also applied on their own, to inputs over the *)
(*    whole u64 / u32 range, under PureSpec; `calc` holds the last         *)
(*    application. A u64 or u128 value there is a little-endian sequence   *)
(*    of WIDE_LIMBS digits in base WIDE_BASE.                              *)
(*  - PairSpec runs two requests in flight, ChallengeSpec a PvP challenge  *)
(*    next to coin-flip requests, and LiveSpec adds the fairness of the    *)
(*    slot clock and of the permissionless Expire.                         *)
(***************************************************************************)
EXTENDS Integers, Naturals, Sequences, FiniteSets, TLC

\* ---------------------------------------------------------------- bounds
MaxGames == 1        \* VRF requests created in one behaviour of Spec
MaxPairGames == 2    \* VRF requests created in one behaviour of PairSpec
MaxSlot == 300       \* last slot the clock reaches

\* ------------------------------------------------------- program constants
VRF_EXPIRY_SLOTS == 300
MAX_HOUSE_EDGE_BPS == 1000
MAX_BET_PERCENT_CAP == 10
COIN_FLIP_MULTIPLIER == 200
DICE_SIDES == 6
DICE_MULTIPLIER_BASE == 600
MIN_TARGET_MULTIPLIER == 101
MAX_TARGET_MULTIPLIER == 10000
LIMBO_RANGE_BPS == 9900
BPS_SCALE == 10000

\* ------------------------------------------------------------ input sets
Players == {"p1", "p2"}
Keys == Players \cup {"auth"}
HOUSE == "house"
CHALLENGE == "challenge"
Accounts == Keys \cup {HOUSE, CHALLENGE}
RandomnessAccounts == {"ra1", "ra2"}
RequestRandomness == {"ra1"}
GameTypes == {"CoinFlip", "DiceRoll", "Limbo", "Crash"}
ReqIds == 0 .. ((IF MaxGames > MaxPairGames THEN MaxGames ELSE MaxPairGames) - 1)

InitialLamports == 1500
HouseEdgeInputs == {100, 1001}
MinBetInputs == {50}
MaxBetPercentInputs == {0, 10, 11}
LiquidityAmounts == {0, 1000}
BetAmounts == {40, 100, 150}
CoinChoices == {0, 1, 2}
DiceTargets == {0, 3, 5, 6}
TargetMultipliers == {100, 1000, 10000}
SlotSteps == {299, 300}
RandomValues == {<<0, 0, 0, 0>>, <<255, 255, 255, 255>>}

VARIABLES house, lamports, lp_position, agent_stats, vrf_request, challenge, clock,
          last, calc

vars == <<house, lamports, lp_position, agent_stats, vrf_request, challenge, clock,
          last, calc>>

\* ------------------------------------------------------------ arithmetic
None == -1

checked_sub(a, b) == IF a >= b THEN a - b ELSE None

u32_from_le_bytes(b) == [lo |-> b[1] + 256 * b[2], hi |-> b[3] + 256 * b[4]]

\* raw % m for a two-half word, m in 1..65536
u32_mod(raw, m) == (((raw.hi % m) * (65536 % m)) + raw.lo) % m

\* mutant: the word is scaled to 0..10000 instead of 0..9900
normalized_bps_full_scale(raw) ==
    LET q == BPS_SCALE * raw.lo
        s == BPS_SCALE * raw.hi + (q \div 65536)
        a == s \div 65536
        bh == s % 65536
        bl == q % 65536
    IN  IF bh = 65535 /\ bl + a >= 65535 THEN a + 1 ELSE a

\* (raw as u128 * 9900) / (u32::MAX as u128), computed on 16-bit halves:
\* x = raw * 9900 = a * 2^32 + b = a * (2^32 - 1) + (a + b), so
\* x / (2^32 - 1) = a + (1 if a + b >= 2^32 - 1 else 0).
normalized_bps(raw) ==
    LET q == LIMBO_RANGE_BPS * raw.lo
        s == LIMBO_RANGE_BPS * raw.hi + (q \div 65536)
        a == s \div 65536
        bh == s % 65536
        bl == q % 65536
    IN  IF bh = 65535 /\ bl + a >= 65535 THEN a + 1 ELSE a

Min(a, b) == IF a < b THEN a ELSE b
Max(a, b) == IF a > b THEN a ELSE b

\* ------------------------------------------------------ wide arithmetic
WIDE_BASE == 10000
WIDE_LIMBS == 7

WideZero == <<0, 0, 0, 0, 0, 0, 0>>

\* u64::MAX = 18446744073709551615
U64_MAX == <<1615, 955, 737, 6744, 1844, 0, 0>>

\* `as u128` of a value below 2^31, and back
to_wide(n) ==
    <<n % WIDE_BASE, (n \div WIDE_BASE) % WIDE_BASE, n \div (WIDE_BASE * WIDE_BASE),
      0, 0, 0, 0>>

from_wide(w) == w[1] + WIDE_BASE * w[2] + WIDE_BASE * WIDE_BASE * w[3]

RECURSIVE wide_mul_from(_, _, _, _)
wide_mul_from(w, m, i, carry) ==
    IF i > WIDE_LIMBS THEN <<>>
    ELSE LET t == w[i] * m + carry
         IN  <<t % WIDE_BASE>> \o wide_mul_from(w, m, i + 1, t \div WIDE_BASE)

\* w * m for m below 2^16 (the product of a u64 and a u16 fits a u128)
wide_mul(w, m) == wide_mul_from(w, m, 1, 0)

RECURSIVE wide_div_from(_, _, _, _)
wide_div_from(w, d, i, rem) ==
    IF i < 1 THEN <<>>
    ELSE LET t == rem * WIDE_BASE + w[i]
         IN  wide_div_from(w, d, i - 1, t % d) \o <<t \div d>>

\* w / d for d in 1..10000
wide_div(w, d) == wide_div_from(w, d, WIDE_LIMBS, 0)

RECURSIVE wide_le_from(_, _, _)
wide_le_from(a, b, i) ==
    IF i < 1 THEN TRUE
    ELSE IF a[i] # b[i] THEN a[i] < b[i]
    ELSE wide_le_from(a, b, i - 1)

wide_le(a, b) == wide_le_from(a, b, WIDE_LIMBS)

RECURSIVE wide_sub_from(_, _, _, _)
wide_sub_from(a, b, i, borrow) ==
    IF i > WIDE_LIMBS THEN <<>>
    ELSE LET t == a[i] - b[i] - borrow
         IN  <<IF t < 0 THEN t + WIDE_BASE ELSE t>>
             \o wide_sub_from(a, b, i + 1, IF t < 0 THEN 1 ELSE 0)

\* a - b for a >= b
wide_sub(a, b) == wide_sub_from(a, b, 1, 0)

\* `x as u64` with the cap at u64::MAX
cap_u64(x) == IF wide_le(x, U64_MAX) THEN x ELSE U64_MAX

\* mutant: an edge larger than the gross payout is ignored
calculate_payout_edge_ignored(amount, multiplier, house_edge_bps) ==
    LET gross_128 == wide_div(wide_mul(amount, multiplier), 100)
        gross == cap_u64(gross_128)
        edge == cap_u64(wide_div(wide_mul(gross, house_edge_bps), BPS_SCALE))
    IN  IF wide_le(edge, gross) THEN wide_sub(gross, edge) ELSE gross

\* mutant: the edge is taken on the stake instead of the gross payout
calculate_payout_edge_on_stake(amount, multiplier, house_edge_bps) ==
    LET gross_128 == wide_div(wide_mul(amount, multiplier), 100)
        gross == cap_u64(gross_128)
        edge == cap_u64(wide_div(wide_mul(amount, house_edge_bps), BPS_SCALE))
    IN  IF wide_le(edge, gross) THEN wide_sub(gross, edge) ELSE WideZero

\* mutant: the stake is divided by 100 before it is multiplied
calculate_payout_divide_first(amount, multiplier, house_edge_bps) ==
    LET gross_128 == wide_mul(wide_div(amount, 100), multiplier)
        gross == cap_u64(gross_128)
        edge == cap_u64(wide_div(wide_mul(gross, house_edge_bps), BPS_SCALE))
    IN  IF wide_le(edge, gross) THEN wide_sub(gross, edge) ELSE WideZero

calculate_payout(amount, multiplier, house_edge_bps) ==
    LET gross_128 == wide_div(wide_mul(amount, multiplier), 100)
        gross == cap_u64(gross_128)
        edge == cap_u64(wide_div(wide_mul(gross, house_edge_bps), BPS_SCALE))
    IN  IF wide_le(edge, gross) THEN wide_sub(gross, edge) ELSE WideZero

\* calculate_payout on the lamport amounts of the state machine
payout_lamports(amount, multiplier, house_edge_bps) ==
    from_wide(calculate_payout(to_wide(amount), multiplier, house_edge_bps))

\* mutant: the result is not raised to 100
calculate_limbo_result_no_floor(raw, house_edge_bps) ==
    LET denominator == Max(BPS_SCALE - normalized_bps(raw), 0)
        edge_factor == BPS_SCALE - house_edge_bps
        result == (edge_factor * 100) \div denominator
    IN  IF denominator = 0 THEN 10000
        ELSE Min(result, 10000)

\* mutant: the house edge does not scale the result
calculate_limbo_result_no_edge(raw, house_edge_bps) ==
    LET denominator == Max(BPS_SCALE - normalized_bps(raw), 0)
        edge_factor == BPS_SCALE
        result == (edge_factor * 100) \div denominator
    IN  IF denominator = 0 THEN 10000
        ELSE Max(Min(result, 10000), 100)

calculate_limbo_result(raw, house_edge_bps) ==
    LET denominator == Max(BPS_SCALE - normalized_bps(raw), 0)
        edge_factor == BPS_SCALE - house_edge_bps
        result == (edge_factor * 100) \div denominator
    IN  IF denominator = 0 THEN 10000
        ELSE Max(Min(result, 10000), 100)

\* mutant: the guard on the denominator is wide enough to be taken
calculate_crash_point_wide_guard(raw, house_edge_bps) ==
    LET denominator == Max(BPS_SCALE - normalized_bps(raw), 0)
        edge_factor == BPS_SCALE - house_edge_bps
        result == (edge_factor * 100) \div denominator
    IN  IF denominator < 1000 THEN 10000
        ELSE Max(Min(result, 10000), 100)

calculate_crash_point(raw, house_edge_bps) ==
    LET denominator == Max(BPS_SCALE - normalized_bps(raw), 0)
        edge_factor == BPS_SCALE - house_edge_bps
        result == (edge_factor * 100) \div denominator
    IN  IF denominator < 10 THEN 10000
        ELSE Max(Min(result, 10000), 100)

\* ------------------------------------------------------------------ state
NoHouse ==
    [initialized |-> FALSE, authority |-> "none", pool |-> 0,
     house_edge_bps |-> 0, min_bet |-> 0, max_bet_percent |-> 0,
     total_games |-> 0, total_volume |-> 0, total_payout |-> 0]

NoRequest ==
    [status |-> "Uninit", player |-> "none", randomness_account |-> "none",
     game_type |-> "none", amount |-> 0, choice |-> 0,
     target_multiplier |-> 0, created_at |-> 0, settled_at |-> 0,
     result |-> 0, payout |-> 0, game_index |-> 0, request_slot |-> 0]

ClosedRequest == [NoRequest EXCEPT !.status = "Closed"]

NoStats ==
    [total_games |-> 0, total_wagered |-> 0, total_won |-> 0,
     wins |-> 0, losses |-> 0, pvp_games |-> 0, pvp_wins |-> 0]

ZeroSeed == <<0, 0>>

NoChallenge ==
    [status |-> "Uninit", challenger |-> "none", acceptor |-> "none", amount |-> 0,
     choice |-> 0, result |-> 0, winner |-> "none", server_seed |-> ZeroSeed,
     client_seed |-> ZeroSeed, created_at |-> 0, completed_at |-> 0, nonce |-> 0]

\* no pure function applied yet
NoCalc ==
    [op |-> "none", amount |-> WideZero, multiplier |-> 0, raw |-> [hi |-> 0, lo |-> 0],
     house_edge_bps |-> 0, out |-> 0, err |-> "Ok",
     randomness |-> <<0, 0, 0, 0>>, choice |-> 0, won |-> FALSE]

\* the last committed instruction and the request it acted on
Committed(op, id) == [op |-> op, id |-> id]

Init ==
    /\ house = NoHouse
    /\ lamports = [a \in Accounts |-> IF a \in Keys THEN InitialLamports ELSE 0]
    /\ lp_position = [k \in Keys |-> [deposited |-> 0]]
    /\ agent_stats = [p \in Players |-> NoStats]
    /\ vrf_request = [r \in ReqIds |-> NoRequest]
    /\ challenge = NoChallenge
    /\ clock = [slot |-> 0, unix_timestamp |-> 1]
    /\ last = Committed("none", None)
    /\ calc = NoCalc

\* ---------------------------------------------------------------- house
\* mutant: the maximum-bet percentage is not validated
initialize_house_result_no_max_bet(house_edge_bps, max_bet_percent) ==
    IF house.initialized THEN "AccountAlreadyInUse"
    ELSE IF ~(house_edge_bps <= MAX_HOUSE_EDGE_BPS) THEN "HouseEdgeTooHigh"
    ELSE "Ok"

initialize_house_result(house_edge_bps, max_bet_percent) ==
    IF house.initialized THEN "AccountAlreadyInUse"
    ELSE IF ~(house_edge_bps <= MAX_HOUSE_EDGE_BPS) THEN "HouseEdgeTooHigh"
    ELSE IF ~(max_bet_percent > 0 /\ max_bet_percent <= MAX_BET_PERCENT_CAP) THEN "InvalidMaxBet"
    ELSE "Ok"

initialize_house(authority, house_edge_bps, min_bet, max_bet_percent) ==
    /\ initialize_house_result(house_edge_bps, max_bet_percent) = "Ok"
    /\ house' = [initialized |-> TRUE, authority |-> authority, pool |-> 0,
                 house_edge_bps |-> house_edge_bps, min_bet |-> min_bet,
                 max_bet_percent |-> max_bet_percent, total_games |-> 0,
                 total_volume |-> 0, total_payout |-> 0]
    /\ last' = Committed("initialize_house", None)
    /\ UNCHANGED <<calc, challenge, lamports, lp_position, agent_stats, vrf_request, clock>>

\* ------------------------------------------------------------ liquidity
\* system_program::transfer: fails when the payer cannot cover the amount
can_transfer(from, amount) == lamports[from] >= amount

move_lamports(l, from, to, amount) ==
    [l EXCEPT ![from] = @ - amount, ![to] = @ + amount]

add_liquidity_result(provider, amount) ==
    IF ~(amount > 0) THEN "InvalidAmount"
    ELSE IF ~can_transfer(provider, amount) THEN "InsufficientFunds"
    ELSE "Ok"

add_liquidity(provider, amount) ==
    /\ house.initialized
    /\ add_liquidity_result(provider, amount) = "Ok"
    /\ lamports' = move_lamports(lamports, provider, HOUSE, amount)
    /\ lp_position' = [lp_position EXCEPT ![provider].deposited = @ + amount]
    /\ house' = [house EXCEPT !.pool = @ + amount]
    /\ last' = Committed("add_liquidity", None)
    /\ UNCHANGED <<calc, challenge, agent_stats, vrf_request, clock>>

\* mutant: the withdrawal is bounded by the account balance, not the pool
remove_liquidity_result_by_balance(provider, amount) ==
    IF provider # house.authority THEN "NotAuthority"
    ELSE IF ~(amount > 0) THEN "InvalidAmount"
    ELSE IF ~(lp_position[provider].deposited >= amount) THEN "InsufficientPoolBalance"
    ELSE IF lamports[HOUSE] < amount THEN "LamportUnderflow"
    ELSE "Ok"

remove_liquidity_result(provider, amount) ==
    IF provider # house.authority THEN "NotAuthority"
    ELSE IF ~(amount > 0) THEN "InvalidAmount"
    ELSE IF ~(house.pool >= amount) THEN "InsufficientPoolBalance"
    ELSE IF ~(lp_position[provider].deposited >= amount) THEN "InsufficientPoolBalance"
    ELSE IF lamports[HOUSE] < amount THEN "LamportUnderflow"
    ELSE "Ok"

remove_liquidity(provider, amount) ==
    /\ house.initialized
    /\ remove_liquidity_result(provider, amount) = "Ok"
    /\ lamports' = move_lamports(lamports, HOUSE, provider, amount)
    /\ lp_position' = [lp_position EXCEPT ![provider].deposited = @ - amount]
    /\ house' = [house EXCEPT !.pool = @ - amount]
    /\ last' = Committed("remove_liquidity", None)
    /\ UNCHANGED <<calc, challenge, agent_stats, vrf_request, clock>>

\* -------------------------------------------------------------- requests
\* mutant: the percentage is applied as tenths of the pool
max_bet_tenths == (house.pool * house.max_bet_percent) \div 10

max_bet == (house.pool * house.max_bet_percent) \div 100

\* mutant: the maximum bet is checked before the minimum bet
liquidity_guard_max_first(amount, max_payout) ==
    IF ~(amount <= max_bet) THEN "BetTooLarge"
    ELSE IF ~(amount >= house.min_bet) THEN "BetTooSmall"
    ELSE IF ~(house.pool >= max_payout) THEN "InsufficientLiquidity"
    ELSE "Ok"

\* mutant: the pool is not compared with the worst-case payout
liquidity_guard_no_pool_check(amount, max_payout) ==
    IF ~(amount >= house.min_bet) THEN "BetTooSmall"
    ELSE IF ~(amount <= max_bet) THEN "BetTooLarge"
    ELSE "Ok"

\* the admission checks shared by the four request handlers, in code order
liquidity_guard(amount, max_payout) ==
    IF ~(amount >= house.min_bet) THEN "BetTooSmall"
    ELSE IF ~(amount <= max_bet) THEN "BetTooLarge"
    ELSE IF ~(house.pool >= max_payout) THEN "InsufficientLiquidity"
    ELSE "Ok"

dice_multiplier(target) == DICE_MULTIPLIER_BASE \div target

target_payout(amount, target_multiplier) == (amount * target_multiplier) \div 100

\* the worst-case payout of a request, as its request handler computes it
worst_case_payout(req) ==
    IF req.game_type = "CoinFlip"
    THEN payout_lamports(req.amount, COIN_FLIP_MULTIPLIER, house.house_edge_bps)
    ELSE IF req.game_type = "DiceRoll"
    THEN payout_lamports(req.amount, dice_multiplier(req.choice), house.house_edge_bps)
    ELSE target_payout(req.amount, req.target_multiplier)

\* mutant: the creation slot is not recorded
new_vrf_request_no_slot(player, ra, game_type, amount, choice, target_multiplier) ==
    [status |-> "Pending", player |-> player, randomness_account |-> ra,
     game_type |-> game_type, amount |-> amount, choice |-> choice,
     target_multiplier |-> target_multiplier,
     created_at |-> clock.unix_timestamp, settled_at |-> 0,
     result |-> 0, payout |-> 0, game_index |-> house.total_games,
     request_slot |-> 0]

\* mutant: the game index is read after the counter is incremented
new_vrf_request_index_after(player, ra, game_type, amount, choice, target_multiplier) ==
    [status |-> "Pending", player |-> player, randomness_account |-> ra,
     game_type |-> game_type, amount |-> amount, choice |-> choice,
     target_multiplier |-> target_multiplier,
     created_at |-> clock.unix_timestamp, settled_at |-> 0,
     result |-> 0, payout |-> 0, game_index |-> house.total_games + 1,
     request_slot |-> clock.slot]

new_vrf_request(player, ra, game_type, amount, choice, target_multiplier) ==
    [status |-> "Pending", player |-> player, randomness_account |-> ra,
     game_type |-> game_type, amount |-> amount, choice |-> choice,
     target_multiplier |-> target_multiplier,
     created_at |-> clock.unix_timestamp, settled_at |-> 0,
     result |-> 0, payout |-> 0, game_index |-> house.total_games,
     request_slot |-> clock.slot]

\* mutant: the stake is counted in the pool as soon as it is escrowed
request_commit_stake_in_pool(op, player, ra, game_type, amount, choice, target_multiplier) ==
    /\ lamports' = move_lamports(lamports, player, HOUSE, amount)
    /\ vrf_request' = [vrf_request EXCEPT ![house.total_games] =
            [status |-> "Pending", player |-> player, randomness_account |-> ra,
             game_type |-> game_type, amount |-> amount, choice |-> choice,
             target_multiplier |-> target_multiplier,
             created_at |-> clock.unix_timestamp, settled_at |-> 0,
             result |-> 0, payout |-> 0, game_index |-> house.total_games,
             request_slot |-> clock.slot]]
    /\ house' = [house EXCEPT !.total_games = @ + 1, !.total_volume = @ + amount,
                              !.pool = @ + amount]
    /\ last' = Committed(op, house.total_games)
    /\ UNCHANGED <<calc, challenge, lp_position, agent_stats, clock>>

\* stake escrow, request record and house counters of a request handler
request_commit(op, player, ra, game_type, amount, choice, target_multiplier) ==
    /\ lamports' = move_lamports(lamports, player, HOUSE, amount)
    /\ vrf_request' = [vrf_request EXCEPT ![house.total_games] =
            new_vrf_request(player, ra, game_type, amount, choice, target_multiplier)]
    /\ house' = [house EXCEPT !.total_games = @ + 1, !.total_volume = @ + amount]
    /\ last' = Committed(op, house.total_games)
    /\ UNCHANGED <<calc, challenge, lp_position, agent_stats, clock>>

\* mutant: the choice is not validated
vrf_coin_flip_request_result_any_choice(player, amount, choice) ==
    LET g == liquidity_guard(amount,
                 payout_lamports(amount, COIN_FLIP_MULTIPLIER, house.house_edge_bps)) IN
    IF g # "Ok" THEN g
    ELSE IF ~can_transfer(player, amount) THEN "InsufficientFunds"
    ELSE "Ok"

vrf_coin_flip_request_result(player, amount, choice) ==
    IF ~(choice <= 1) THEN "InvalidChoice"
    ELSE LET g == liquidity_guard(amount,
                    payout_lamports(amount, COIN_FLIP_MULTIPLIER, house.house_edge_bps)) IN
         IF g # "Ok" THEN g
         ELSE IF ~can_transfer(player, amount) THEN "InsufficientFunds"
         ELSE "Ok"

vrf_coin_flip_request(player, ra, amount, choice) ==
    /\ house.initialized
    /\ vrf_coin_flip_request_result(player, amount, choice) = "Ok"
    /\ request_commit("vrf_coin_flip_request", player, ra, "CoinFlip", amount, choice, 0)

\* mutant: the target may be the number of sides
vrf_dice_roll_request_result_six(player, amount, target) ==
    IF ~(target >= 1 /\ target <= DICE_SIDES) THEN "InvalidTarget"
    ELSE LET g == liquidity_guard(amount,
                    payout_lamports(amount, dice_multiplier(target), house.house_edge_bps)) IN
         IF g # "Ok" THEN g
         ELSE IF ~can_transfer(player, amount) THEN "InsufficientFunds"
         ELSE "Ok"

vrf_dice_roll_request_result(player, amount, target) ==
    IF ~(target >= 1 /\ target <= 5) THEN "InvalidTarget"
    ELSE LET g == liquidity_guard(amount,
                    payout_lamports(amount, dice_multiplier(target), house.house_edge_bps)) IN
         IF g # "Ok" THEN g
         ELSE IF ~can_transfer(player, amount) THEN "InsufficientFunds"
         ELSE "Ok"

vrf_dice_roll_request(player, ra, amount, target) ==
    /\ house.initialized
    /\ vrf_dice_roll_request_result(player, amount, target) = "Ok"
    /\ request_commit("vrf_dice_roll_request", player, ra, "DiceRoll", amount, target, 0)

target_request_result(player, amount, target_multiplier) ==
    IF ~(target_multiplier >= MIN_TARGET_MULTIPLIER /\ target_multiplier <= MAX_TARGET_MULTIPLIER)
    THEN "InvalidMultiplier"
    ELSE LET g == liquidity_guard(amount, target_payout(amount, target_multiplier)) IN
         IF g # "Ok" THEN g
         ELSE IF ~can_transfer(player, amount) THEN "InsufficientFunds"
         ELSE "Ok"

vrf_limbo_request(player, ra, amount, target_multiplier) ==
    /\ house.initialized
    /\ target_request_result(player, amount, target_multiplier) = "Ok"
    /\ request_commit("vrf_limbo_request", player, ra, "Limbo", amount, 0, target_multiplier)

vrf_crash_request(player, ra, amount, cashout_multiplier) ==
    /\ house.initialized
    /\ target_request_result(player, amount, cashout_multiplier) = "Ok"
    /\ request_commit("vrf_crash_request", player, ra, "Crash", amount, 0, cashout_multiplier)

\* ---------------------------------------------------------------- settle
\* mutant: only an expired request is refused
is_pending_not_expired(req) == req.status # "Expired"

is_pending(req) == req.status = "Pending"

\* mutant: the status constraint of the settle contexts is missing
settle_accounts_result_no_status(game_type, req, ra, player_acct) ==
    IF req.game_type # game_type THEN "VrfInvalidRandomness"
    ELSE IF ra # req.randomness_account THEN "VrfInvalidRandomness"
    ELSE IF player_acct # req.player THEN "InvalidCreatorAccount"
    ELSE "Ok"

\* mutant: the game-kind constraint of the settle contexts is missing
settle_accounts_result_any_kind(game_type, req, ra, player_acct) ==
    IF ~is_pending(req) THEN "VrfAlreadySettled"
    ELSE IF ra # req.randomness_account THEN "VrfInvalidRandomness"
    ELSE IF player_acct # req.player THEN "InvalidCreatorAccount"
    ELSE "Ok"

\* mutant: the player account is not compared with the request's player
settle_accounts_result_any_player(game_type, req, ra, player_acct) ==
    IF req.game_type # game_type THEN "VrfInvalidRandomness"
    ELSE IF ~is_pending(req) THEN "VrfAlreadySettled"
    ELSE IF ra # req.randomness_account THEN "VrfInvalidRandomness"
    ELSE "Ok"

\* account constraints of the Vrf*Settle contexts, in declaration order
settle_accounts_result(game_type, req, ra, player_acct) ==
    IF req.game_type # game_type THEN "VrfInvalidRandomness"
    ELSE IF ~is_pending(req) THEN "VrfAlreadySettled"
    ELSE IF ra # req.randomness_account THEN "VrfInvalidRandomness"
    ELSE IF player_acct # req.player THEN "InvalidCreatorAccount"
    ELSE "Ok"

\* the randomness account a Settle is handed: data that does not parse, a
\* value not revealed yet, or a value revealed in the first slot or in the
\* current one (the oracle cannot have revealed in a later slot)
OracleResults ==
    {[state |-> "Invalid", value |-> <<0, 0, 0, 0>>, reveal_slot |-> 0],
     [state |-> "NotReady", value |-> <<0, 0, 0, 0>>, reveal_slot |-> 0]}
    \cup {[state |-> "Ready", value |-> v, reveal_slot |-> r] :
             v \in RandomValues, r \in {0, clock.slot}}

\* the oracle's answer for a height: the value, when it is revealed for that
\* height or a later one
get_value(oracle, at_or_after) ==
    IF oracle.state = "Ready" /\ oracle.reveal_slot >= at_or_after THEN "Ok"
    ELSE "NotReady"

\* mutant: a value that is not revealed yet is read as it stands
oracle_result_unrevealed(oracle) ==
    IF oracle.state = "Invalid" THEN "VrfInvalidRandomness" ELSE "Ok"

\* mutant: the value is asked for the first slot, not the current one
oracle_result_first_slot(oracle) ==
    IF oracle.state = "Invalid" THEN "VrfInvalidRandomness"
    ELSE IF get_value(oracle, 0) # "Ok" THEN "VrfRandomnessNotReady"
    ELSE "Ok"

\* RandomnessAccountData::parse, then get_value(clock.slot)
oracle_result(oracle) ==
    IF oracle.state = "Invalid" THEN "VrfInvalidRandomness"
    ELSE IF get_value(oracle, clock.slot) # "Ok" THEN "VrfRandomnessNotReady"
    ELSE "Ok"

Outcome(won, result, payout, err) ==
    [won |-> won, result |-> result, payout |-> payout, err |-> err]

\* mutant: the bit is taken from the second byte
coin_flip_outcome_second_byte(req, randomness) ==
    LET result == randomness[2] % 2
        won == result = req.choice
        payout == IF won
                  THEN payout_lamports(req.amount, COIN_FLIP_MULTIPLIER, house.house_edge_bps)
                  ELSE 0
    IN  [won |-> won, result |-> result, payout |-> payout, err |-> "Ok"]

coin_flip_outcome(req, randomness) ==
    LET result == randomness[1] % 2
        won == result = req.choice
        payout == IF won
                  THEN payout_lamports(req.amount, COIN_FLIP_MULTIPLIER, house.house_edge_bps)
                  ELSE 0
    IN  Outcome(won, result, payout, "Ok")

\* mutant: the roll has to be strictly below the target to win
dice_roll_outcome_strict(req, randomness) ==
    LET raw == u32_from_le_bytes(randomness)
        result == u32_mod(raw, DICE_SIDES) + 1
        won == result < req.choice
        valid == req.choice >= 1 /\ req.choice <= 5
        payout == IF won /\ valid
                  THEN payout_lamports(req.amount, DICE_MULTIPLIER_BASE \div req.choice,
                                       house.house_edge_bps)
                  ELSE 0
    IN  [won |-> won, result |-> result, payout |-> payout,
         err |-> IF valid THEN "Ok" ELSE "InvalidChoice"]

\* 600u64.checked_div(choice) of the settle handler
settle_dice_multiplier(choice) ==
    IF choice = 0 THEN None ELSE DICE_MULTIPLIER_BASE \div choice

dice_roll_outcome(req, randomness) ==
    LET raw == u32_from_le_bytes(randomness)
        result == u32_mod(raw, DICE_SIDES) + 1
        won == result <= req.choice
        valid == req.choice >= 1 /\ req.choice <= 5
        payout == IF won /\ valid
                  THEN payout_lamports(req.amount, settle_dice_multiplier(req.choice),
                                       house.house_edge_bps)
                  ELSE 0
    IN  Outcome(won, result, payout, IF valid THEN "Ok" ELSE "InvalidChoice")

limbo_outcome(req, randomness) ==
    LET raw == u32_from_le_bytes(randomness)
        result_multiplier == calculate_limbo_result(raw, house.house_edge_bps)
        won == result_multiplier >= req.target_multiplier
        payout == IF won THEN target_payout(req.amount, req.target_multiplier) ELSE 0
    IN  Outcome(won, result_multiplier \div 100, payout, "Ok")

crash_outcome(req, randomness) ==
    LET raw == u32_from_le_bytes(randomness)
        crash_point == calculate_crash_point(raw, house.house_edge_bps)
        won == crash_point >= req.target_multiplier
        payout == IF won THEN target_payout(req.amount, req.target_multiplier) ELSE 0
    IN  Outcome(won, crash_point \div 100, payout, "Ok")

game_outcome(game_type, req, randomness) ==
    IF game_type = "CoinFlip" THEN coin_flip_outcome(req, randomness)
    ELSE IF game_type = "DiceRoll" THEN dice_roll_outcome(req, randomness)
    ELSE IF game_type = "Limbo" THEN limbo_outcome(req, randomness)
    ELSE crash_outcome(req, randomness)

\* the payout transfer and the pool update of a settle handler, on a house
\* account that holds house_lamports and counts pool
payment_result(amount, out, house_lamports, pool) ==
    IF out.won /\ out.payout > 0 /\ house_lamports < out.payout THEN "LamportUnderflow"
    ELSE IF out.won /\ checked_sub(out.payout, amount) = None THEN "MathOverflow"
    ELSE IF out.won /\ checked_sub(pool, checked_sub(out.payout, amount)) = None
    THEN "MathOverflow"
    ELSE "Ok"

settle_payment_result(req, out) ==
    payment_result(req.amount, out, lamports[HOUSE], house.pool)

settle_result(game_type, req, ra, player_acct, oracle) ==
    LET c == settle_accounts_result(game_type, req, ra, player_acct)
        o == oracle_result(oracle)
        out == game_outcome(game_type, req, oracle.value)
    IN  IF c # "Ok" THEN c
        ELSE IF o # "Ok" THEN o
        ELSE IF out.err # "Ok" THEN out.err
        ELSE settle_payment_result(req, out)

\* mutant: the pool is charged the whole payout of a win
settle_house_whole_payout(req, out) ==
    IF out.won
    THEN [house EXCEPT !.total_payout = @ + out.payout,
                       !.pool = @ - out.payout]
    ELSE [house EXCEPT !.pool = @ + req.amount]

settle_house(req, out) ==
    IF out.won
    THEN [house EXCEPT !.total_payout = @ + out.payout,
                       !.pool = @ - (out.payout - req.amount)]
    ELSE [house EXCEPT !.pool = @ + req.amount]

settle_agent_stats(st, req, out) ==
    [total_games |-> st.total_games + 1,
     total_wagered |-> st.total_wagered + req.amount,
     total_won |-> IF out.won THEN st.total_won + out.payout ELSE st.total_won,
     wins |-> IF out.won THEN st.wins + 1 ELSE st.wins,
     losses |-> IF out.won THEN st.losses ELSE st.losses + 1,
     pvp_games |-> st.pvp_games, pvp_wins |-> st.pvp_wins]

settle_request(req, out) ==
    [req EXCEPT !.status = "Settled", !.settled_at = clock.unix_timestamp,
                !.result = out.result, !.payout = out.payout]

settle(op, game_type, id, ra, player_acct, settler, oracle) ==
    LET req == vrf_request[id]
        err == settle_result(game_type, req, ra, player_acct, oracle)
        out == game_outcome(game_type, req, oracle.value)
    IN  /\ house.initialized
        /\ req.status \in {"Pending", "Settled", "Expired"}
        /\ err = "Ok"
        /\ last' = Committed(op, id)
        /\ lamports' = IF out.won /\ out.payout > 0
                       THEN move_lamports(lamports, HOUSE, player_acct, out.payout)
                       ELSE lamports
        /\ house' = settle_house(req, out)
        /\ agent_stats' = [agent_stats EXCEPT ![req.player] =
                                settle_agent_stats(@, req, out)]
        /\ vrf_request' = [vrf_request EXCEPT ![id] = settle_request(req, out)]
        /\ UNCHANGED <<calc, challenge, lp_position, clock>>

vrf_coin_flip_settle(id, ra, player_acct, settler, oracle) ==
    settle("vrf_coin_flip_settle", "CoinFlip", id, ra, player_acct, settler, oracle)

vrf_dice_roll_settle(id, ra, player_acct, settler, oracle) ==
    settle("vrf_dice_roll_settle", "DiceRoll", id, ra, player_acct, settler, oracle)

vrf_limbo_settle(id, ra, player_acct, settler, oracle) ==
    settle("vrf_limbo_settle", "Limbo", id, ra, player_acct, settler, oracle)

vrf_crash_settle(id, ra, player_acct, settler, oracle) ==
    settle("vrf_crash_settle", "Crash", id, ra, player_acct, settler, oracle)

\* ---------------------------------------------------------------- expire
slots_elapsed(req) == checked_sub(clock.slot, req.request_slot)

\* mutant: the window boundary is exclusive
is_expired_strict(elapsed) == elapsed > VRF_EXPIRY_SLOTS

is_expired(elapsed) == elapsed >= VRF_EXPIRY_SLOTS

\* mutant: the refund is read from the payout field
refund_amount_payout(req) == req.payout

refund_amount(req) == req.amount

\* mutant: only the player may expire the request
expire_vrf_request_result_player_only(req, player_acct, payer) ==
    IF ~is_pending(req) THEN "VrfAlreadySettled"
    ELSE IF player_acct # req.player THEN "InvalidCreatorAccount"
    ELSE IF payer # req.player THEN "NotAuthority"
    ELSE IF slots_elapsed(req) = None THEN "MathOverflow"
    ELSE IF ~is_expired(slots_elapsed(req)) THEN "VrfNotExpired"
    ELSE IF lamports[HOUSE] < refund_amount(req) THEN "LamportUnderflow"
    ELSE "Ok"

expire_vrf_request_result(req, player_acct, payer) ==
    IF ~is_pending(req) THEN "VrfAlreadySettled"
    ELSE IF player_acct # req.player THEN "InvalidCreatorAccount"
    ELSE IF slots_elapsed(req) = None THEN "MathOverflow"
    ELSE IF ~is_expired(slots_elapsed(req)) THEN "VrfNotExpired"
    ELSE IF lamports[HOUSE] < refund_amount(req) THEN "LamportUnderflow"
    ELSE "Ok"

expire_vrf_request(id, player_acct, payer) ==
    LET req == vrf_request[id]
        err == expire_vrf_request_result(req, player_acct, payer)
    IN  /\ house.initialized
        /\ req.status \in {"Pending", "Settled", "Expired"}
        /\ err = "Ok"
        /\ last' = Committed("expire_vrf_request", id)
        /\ lamports' = move_lamports(lamports, HOUSE, player_acct, refund_amount(req))
        /\ vrf_request' = [vrf_request EXCEPT ![id] =
                [req EXCEPT !.status = "Expired", !.settled_at = clock.unix_timestamp]]
        /\ UNCHANGED <<calc, challenge, house, lp_position, agent_stats, clock>>

\* ----------------------------------------------------------------- close
\* mutant: the status constraint is missing
close_vrf_request_result_any_status(req, authority) ==
    IF authority # house.authority THEN "NotAuthority" ELSE "Ok"

close_vrf_request_result(req, authority) ==
    IF ~(req.status # "Pending") THEN "NotCloseable"
    ELSE IF authority # house.authority THEN "NotAuthority"
    ELSE "Ok"

close_vrf_request(id, authority) ==
    LET req == vrf_request[id]
        err == close_vrf_request_result(req, authority)
    IN  /\ house.initialized
        /\ req.status \in {"Pending", "Settled", "Expired"}
        /\ err = "Ok"
        /\ last' = Committed("close_vrf_request", id)
        /\ vrf_request' = [vrf_request EXCEPT ![id] = ClosedRequest]
        /\ UNCHANGED <<calc, challenge, house, lamports, lp_position, agent_stats, clock>>

\* ----------------------------------------------------------------- clock
advance_clock(d) ==
    /\ clock' = [slot |-> clock.slot + d, unix_timestamp |-> clock.unix_timestamp + d]
    /\ last' = Committed("advance_clock", None)
    /\ UNCHANGED <<calc, challenge, house, lamports, lp_position, agent_stats, vrf_request>>

Next ==
    \/ \E e \in HouseEdgeInputs, m \in MinBetInputs, p \in MaxBetPercentInputs :
          initialize_house("auth", e, m, p)
    \/ \E a \in LiquidityAmounts : add_liquidity("auth", a)
    \/ \E k \in Keys, a \in LiquidityAmounts : remove_liquidity(k, a)
    \/ /\ house.total_games < MaxGames
       /\ \E p \in Players, ra \in RequestRandomness, a \in BetAmounts, c \in CoinChoices :
             vrf_coin_flip_request(p, ra, a, c)
    \/ /\ house.total_games < MaxGames
       /\ \E p \in Players, ra \in RequestRandomness, a \in BetAmounts, t \in DiceTargets :
             vrf_dice_roll_request(p, ra, a, t)
    \/ /\ house.total_games < MaxGames
       /\ \E p \in Players, ra \in RequestRandomness, a \in BetAmounts, t \in TargetMultipliers :
             vrf_limbo_request(p, ra, a, t)
    \/ /\ house.total_games < MaxGames
       /\ \E p \in Players, ra \in RequestRandomness, a \in BetAmounts, t \in TargetMultipliers :
             vrf_crash_request(p, ra, a, t)
    \/ \E id \in ReqIds, ra \in RandomnessAccounts, pa \in Players, k \in Keys, o \in OracleResults :
          vrf_coin_flip_settle(id, ra, pa, k, o)
    \/ \E id \in ReqIds, ra \in RandomnessAccounts, pa \in Players, k \in Keys, o \in OracleResults :
          vrf_dice_roll_settle(id, ra, pa, k, o)
    \/ \E id \in ReqIds, ra \in RandomnessAccounts, pa \in Players, k \in Keys, o \in OracleResults :
          vrf_limbo_settle(id, ra, pa, k, o)
    \/ \E id \in ReqIds, ra \in RandomnessAccounts, pa \in Players, k \in Keys, o \in OracleResults :
          vrf_crash_settle(id, ra, pa, k, o)
    \/ \E id \in ReqIds, pa \in Players, k \in Keys : expire_vrf_request(id, pa, k)
    \/ \E id \in ReqIds, k \in Keys : close_vrf_request(id, k)
    \/ \E d \in SlotSteps : clock.slot + d <= MaxSlot /\ advance_clock(d)

Spec == Init /\ [][Next]_vars

\* ------------------------------------------------------- PvP challenges
\* A 32-byte digest is a pair of bytes here, and SHA-256 a mixing function
\* that depends on every input byte and on their order.
RECURSIVE mix(_, _, _, _)
mix(data, i, acc, mult) ==
    IF i > Len(data) THEN acc
    ELSE mix(data, i + 1, (acc * mult + data[i] + 1) % 256, mult)

hash(data) == <<mix(data, 1, 7, 31), mix(data, 1, 11, 37)>>

\* Pubkey::to_bytes
key_bytes(k) ==
    <<CASE k = "p1" -> 1 [] k = "p2" -> 2 [] k = "auth" -> 3 [] k = CHALLENGE -> 4
        [] OTHER -> 0>>

\* u64 / i64 to_le_bytes of a value below 65536
to_le_bytes(n) == <<n % 256, (n \div 256) % 256, 0, 0, 0, 0, 0, 0>>

generate_seed(player, slot, timestamp, house_key) ==
    hash(key_bytes(player) \o to_le_bytes(slot) \o to_le_bytes(timestamp)
         \o key_bytes(house_key))

combine_seeds(server, client, player) ==
    hash(server \o client \o key_bytes(player))

create_challenge_result(challenger, amount, choice) ==
    IF challenge.status # "Uninit" THEN "AccountAlreadyInUse"
    ELSE IF ~(choice <= 1) THEN "InvalidChoice"
    ELSE IF ~(amount > 0) THEN "InvalidAmount"
    ELSE IF ~(amount >= house.min_bet) THEN "BetTooSmall"
    ELSE IF ~can_transfer(challenger, amount) THEN "InsufficientFunds"
    ELSE "Ok"

create_challenge(challenger, amount, choice, nonce) ==
    /\ house.initialized
    /\ create_challenge_result(challenger, amount, choice) = "Ok"
    /\ lamports' = move_lamports(lamports, challenger, CHALLENGE, amount)
    /\ challenge' = [NoChallenge EXCEPT !.status = "Open", !.challenger = challenger,
                                        !.amount = amount, !.choice = choice,
                                        !.created_at = clock.unix_timestamp,
                                        !.nonce = nonce]
    /\ last' = Committed("create_challenge", None)
    /\ UNCHANGED <<calc, house, lp_position, agent_stats, vrf_request, clock>>

\* mutant: the status of the challenge is not checked
accept_challenge_result_any_status(acceptor, challenger_acct) ==
    IF challenger_acct # challenge.challenger THEN "InvalidChallenger"
    ELSE IF ~(challenge.challenger # acceptor) THEN "CannotAcceptOwnChallenge"
    ELSE IF ~can_transfer(acceptor, challenge.amount) THEN "InsufficientFunds"
    ELSE "Ok"

accept_challenge_result(acceptor, challenger_acct) ==
    IF challenge.status # "Open" THEN "ChallengeNotOpen"
    ELSE IF challenger_acct # challenge.challenger THEN "InvalidChallenger"
    ELSE IF ~(challenge.challenger # acceptor) THEN "CannotAcceptOwnChallenge"
    ELSE IF ~can_transfer(acceptor, challenge.amount) THEN "InsufficientFunds"
    ELSE "Ok"

\* mutant: the acceptor's key is mixed in instead of the challenger's
challenge_outcome_acceptor_key(acceptor, client_seed) ==
    LET server_seed == generate_seed(acceptor, clock.slot, clock.unix_timestamp, CHALLENGE)
        combined == combine_seeds(server_seed, client_seed, acceptor)
        result == combined[1] % 2
        challenger_won == result = challenge.choice
        total_pot == challenge.amount * 2
        house_take == (total_pot * house.house_edge_bps) \div BPS_SCALE
    IN  [server_seed |-> server_seed, result |-> result, challenger_won |-> challenger_won,
         winner |-> IF challenger_won THEN challenge.challenger ELSE acceptor,
         total_pot |-> total_pot, house_take |-> house_take,
         winner_payout |-> total_pot - house_take]

\* seed, result, winner and amounts of accept_challenge
challenge_outcome(acceptor, client_seed) ==
    LET server_seed == generate_seed(acceptor, clock.slot, clock.unix_timestamp, CHALLENGE)
        combined == combine_seeds(server_seed, client_seed, challenge.challenger)
        result == combined[1] % 2
        challenger_won == result = challenge.choice
        total_pot == challenge.amount * 2
        house_take == (total_pot * house.house_edge_bps) \div BPS_SCALE
    IN  [server_seed |-> server_seed, result |-> result, challenger_won |-> challenger_won,
         winner |-> IF challenger_won THEN challenge.challenger ELSE acceptor,
         total_pot |-> total_pot, house_take |-> house_take,
         winner_payout |-> total_pot - house_take]

challenge_stats(st, amount, won, winner_payout) ==
    [total_games |-> st.total_games + 1,
     total_wagered |-> st.total_wagered + amount,
     total_won |-> IF won THEN st.total_won + winner_payout ELSE st.total_won,
     wins |-> IF won THEN st.wins + 1 ELSE st.wins,
     losses |-> IF won THEN st.losses ELSE st.losses + 1,
     pvp_games |-> st.pvp_games + 1,
     pvp_wins |-> IF won THEN st.pvp_wins + 1 ELSE st.pvp_wins]

\* mutant: the house take is not added to the pool counter
challenge_house_take_uncounted(out) ==
    [house EXCEPT !.total_games = @ + 1,
                  !.total_volume = @ + out.total_pot]

\* house counters after an accepted challenge
challenge_house(out) ==
    [house EXCEPT !.total_games = @ + 1,
                  !.total_volume = @ + out.total_pot,
                  !.pool = @ + out.house_take]

accept_challenge(acceptor, challenger_acct, client_seed) ==
    LET out == challenge_outcome(acceptor, client_seed)
        escrowed == move_lamports(lamports, acceptor, CHALLENGE, challenge.amount)
        taken == move_lamports(escrowed, CHALLENGE, HOUSE, out.house_take)
    IN  /\ house.initialized
        /\ challenge.status # "Uninit"
        /\ accept_challenge_result(acceptor, challenger_acct) = "Ok"
        /\ lamports' = move_lamports(taken, CHALLENGE, out.winner, out.winner_payout)
        /\ challenge' = [challenge EXCEPT !.status = "Completed", !.acceptor = acceptor,
                                          !.winner = out.winner, !.result = out.result,
                                          !.server_seed = out.server_seed,
                                          !.client_seed = client_seed,
                                          !.completed_at = clock.unix_timestamp]
        /\ house' = challenge_house(out)
        /\ agent_stats' = [agent_stats EXCEPT
                ![challenge.challenger] =
                    challenge_stats(@, challenge.amount, out.challenger_won, out.winner_payout),
                ![acceptor] =
                    challenge_stats(@, challenge.amount, ~out.challenger_won, out.winner_payout)]
        /\ last' = Committed("accept_challenge", None)
        /\ UNCHANGED <<calc, lp_position, vrf_request, clock>>

cancel_challenge_result(challenger) ==
    IF challenge.challenger # challenger THEN "NotChallengeOwner"
    ELSE IF challenge.status # "Open" THEN "ChallengeNotOpen"
    ELSE "Ok"

cancel_challenge(challenger) ==
    /\ challenge.status # "Uninit"
    /\ cancel_challenge_result(challenger) = "Ok"
    /\ lamports' = move_lamports(lamports, CHALLENGE, challenger, challenge.amount)
    /\ challenge' = [challenge EXCEPT !.status = "Cancelled"]
    /\ last' = Committed("cancel_challenge", None)
    /\ UNCHANGED <<calc, house, lp_position, agent_stats, vrf_request, clock>>

\* ---------------------------------------------------- concurrent requests
\* two requests in flight: limbo and coin-flip stakes of one size
PairAmounts == {100}
PairTargets == {1000}
PairChoices == {1}
PairSlotSteps == {300}
ChallengeNonces == {1}
ClientSeeds == {<<0, 0>>, <<1, 0>>}
Challengers == {"p1"}

PairNext ==
    \/ \E e \in HouseEdgeInputs, m \in MinBetInputs, p \in MaxBetPercentInputs :
          initialize_house("auth", e, m, p)
    \/ \E a \in LiquidityAmounts : add_liquidity("auth", a)
    \/ \E k \in Keys, a \in LiquidityAmounts : remove_liquidity(k, a)
    \/ /\ house.total_games < MaxPairGames
       /\ \E p \in Players, ra \in RequestRandomness, a \in PairAmounts, c \in PairChoices :
             vrf_coin_flip_request(p, ra, a, c)
    \/ /\ house.total_games < MaxPairGames
       /\ \E p \in Players, ra \in RequestRandomness, a \in PairAmounts, t \in PairTargets :
             vrf_limbo_request(p, ra, a, t)
    \/ \E id \in ReqIds, ra \in RequestRandomness, pa \in Players, k \in Players, o \in OracleResults :
          vrf_coin_flip_settle(id, ra, pa, k, o)
    \/ \E id \in ReqIds, ra \in RequestRandomness, pa \in Players, k \in Players, o \in OracleResults :
          vrf_limbo_settle(id, ra, pa, k, o)
    \/ \E id \in ReqIds, pa \in Players, k \in Players : expire_vrf_request(id, pa, k)
    \/ \E d \in PairSlotSteps : clock.slot + d <= MaxSlot /\ advance_clock(d)

PairSpec == Init /\ [][PairNext]_vars

\* ------------------------------------------- challenges next to requests
\* a PvP challenge and coin-flip requests on one house
ChallengeNext ==
    \/ \E e \in HouseEdgeInputs, m \in MinBetInputs, p \in MaxBetPercentInputs :
          initialize_house("auth", e, m, p)
    \/ \E a \in LiquidityAmounts : add_liquidity("auth", a)
    \/ \E k \in Keys, a \in LiquidityAmounts : remove_liquidity(k, a)
    \/ /\ house.total_games < MaxPairGames
       /\ \E p \in Players, ra \in RequestRandomness, a \in PairAmounts, c \in PairChoices :
             vrf_coin_flip_request(p, ra, a, c)
    \/ \E id \in ReqIds, ra \in RequestRandomness, pa \in Players, k \in Players, o \in OracleResults :
          vrf_coin_flip_settle(id, ra, pa, k, o)
    \/ \E id \in ReqIds, pa \in Players, k \in Players : expire_vrf_request(id, pa, k)
    \/ \E p \in Challengers, a \in PairAmounts, c \in PairChoices, n \in ChallengeNonces :
          create_challenge(p, a, c, n)
    \/ /\ house.total_games < MaxPairGames
       /\ \E p \in Players, c \in Players, sd \in ClientSeeds : accept_challenge(p, c, sd)
    \/ \E p \in Players : cancel_challenge(p)
    \/ \E d \in PairSlotSteps : clock.slot + d <= MaxSlot /\ advance_clock(d)

ChallengeSpec == Init /\ [][ChallengeNext]_vars

\* ------------------------------------------------------------- liveness
\* The ledger's slot clock keeps advancing: here it runs on while a Pending
\* request is younger than the expiry window. expire_vrf_request is
\* permissionless, so some account keeps attempting it on every request.
SlotsPass ==
    \E d \in PairSlotSteps :
        /\ \/ clock.slot + d <= MaxSlot
           \/ \E id \in ReqIds :
                 is_pending(vrf_request[id]) /\ ~is_expired(slots_elapsed(vrf_request[id]))
        /\ advance_clock(d)

ExpireAttempted(id) ==
    \E pa \in Players, k \in Players : expire_vrf_request(id, pa, k)

LiveNext ==
    \/ \E e \in HouseEdgeInputs, m \in MinBetInputs, p \in MaxBetPercentInputs :
          initialize_house("auth", e, m, p)
    \/ \E a \in LiquidityAmounts : add_liquidity("auth", a)
    \/ \E k \in Keys, a \in LiquidityAmounts : remove_liquidity(k, a)
    \/ /\ house.total_games < MaxPairGames
       /\ \E p \in Players, ra \in RequestRandomness, a \in PairAmounts, c \in PairChoices :
             vrf_coin_flip_request(p, ra, a, c)
    \/ \E id \in ReqIds, ra \in RequestRandomness, pa \in Players, k \in Players, o \in OracleResults :
          vrf_coin_flip_settle(id, ra, pa, k, o)
    \/ \E id \in ReqIds : ExpireAttempted(id)
    \/ SlotsPass

LiveSpec ==
    /\ Init
    /\ [][LiveNext]_vars
    /\ WF_vars(SlotsPass)
    /\ \A id \in ReqIds : WF_vars(ExpireAttempted(id))

\* ------------------------------------------------------- pure functions
\* the payout of a winning limbo / crash settle: checked_mul in u128, / 100,
\* then require!(p <= u64::MAX)
checked_target_payout(amount, target_multiplier) ==
    LET p == wide_div(wide_mul(amount, target_multiplier), 100)
    IN  IF wide_le(p, U64_MAX) THEN [err |-> "Ok", value |-> p]
        ELSE [err |-> "MathOverflow", value |-> WideZero]

PayoutAmounts ==
    {to_wide(0), to_wide(1), to_wide(99), to_wide(100), to_wide(10000), to_wide(30000),
     <<5516, 3709, 4407, 4467, 18, 0, 0>>,      \* (2^64 - 1) / 100
     <<8602, 1825, 3456, 4457, 307, 0, 0>>,     \* (2^64 - 1) / 6
     <<5807, 5477, 368, 3372, 922, 0, 0>>,      \* 2^63 - 1
     <<5808, 5477, 368, 3372, 922, 0, 0>>,      \* 2^63
     U64_MAX}
PayoutMultipliers == {0, 1, 100, 101, 120, 150, 200, 300, 600, 10000, 65535}
PayoutEdges == {0, 1, 100, 999, 1000, 1001, 10000, 10001, 65535}
RawWords == [hi : {0, 1, 32768, 65535}, lo : {0, 1, 32768, 65534, 65535}]
MapperEdges == {0, 1, 100, 500, 1000}

apply_calculate_payout(amount, multiplier, house_edge_bps) ==
    /\ calc = NoCalc
    /\ calc' = [NoCalc EXCEPT !.op = "calculate_payout", !.amount = amount,
                              !.multiplier = multiplier,
                              !.house_edge_bps = house_edge_bps,
                              !.out = calculate_payout(amount, multiplier, house_edge_bps)]
    /\ UNCHANGED <<house, lamports, lp_position, agent_stats, vrf_request, challenge, clock,
                     last>>

apply_checked_target_payout(amount, target_multiplier) ==
    /\ calc = NoCalc
    /\ calc' = [NoCalc EXCEPT !.op = "checked_target_payout", !.amount = amount,
                              !.multiplier = target_multiplier,
                              !.out = checked_target_payout(amount, target_multiplier).value,
                              !.err = checked_target_payout(amount, target_multiplier).err]
    /\ UNCHANGED <<house, lamports, lp_position, agent_stats, vrf_request, challenge, clock,
                     last>>

apply_calculate_limbo_result(raw, house_edge_bps) ==
    /\ calc = NoCalc
    /\ calc' = [NoCalc EXCEPT !.op = "calculate_limbo_result", !.raw = raw,
                              !.house_edge_bps = house_edge_bps,
                              !.out = calculate_limbo_result(raw, house_edge_bps)]
    /\ UNCHANGED <<house, lamports, lp_position, agent_stats, vrf_request, challenge, clock,
                     last>>

apply_calculate_crash_point(raw, house_edge_bps) ==
    /\ calc = NoCalc
    /\ calc' = [NoCalc EXCEPT !.op = "calculate_crash_point", !.raw = raw,
                              !.house_edge_bps = house_edge_bps,
                              !.out = calculate_crash_point(raw, house_edge_bps)]
    /\ UNCHANGED <<house, lamports, lp_position, agent_stats, vrf_request, challenge, clock,
                     last>>

\* the first four bytes of a revealed value, and the choice byte of a request
MapperBytes == {0, 1, 2, 5, 128, 255}
MapperRandomness == [1 .. 4 -> MapperBytes]
DiceChoices == 0 .. 6

\* the outcome lines of vrf_dice_roll_settle on a request with this choice
apply_dice_roll_outcome(randomness, choice) ==
    LET req == [NoRequest EXCEPT !.game_type = "DiceRoll", !.choice = choice]
        out == dice_roll_outcome(req, randomness)
    IN  /\ calc = NoCalc
        /\ calc' = [NoCalc EXCEPT !.op = "dice_roll_outcome", !.randomness = randomness,
                                  !.choice = choice, !.out = out.result,
                                  !.won = out.won, !.err = out.err]
        /\ UNCHANGED <<house, lamports, lp_position, agent_stats, vrf_request, challenge, clock,
                     last>>

PureNext ==
    \/ \E a \in PayoutAmounts, m \in PayoutMultipliers, e \in PayoutEdges :
          apply_calculate_payout(a, m, e)
    \/ \E a \in PayoutAmounts, m \in PayoutMultipliers :
          apply_checked_target_payout(a, m)
    \/ \E raw \in RawWords, e \in MapperEdges : apply_calculate_limbo_result(raw, e)
    \/ \E raw \in RawWords, e \in MapperEdges : apply_calculate_crash_point(raw, e)
    \/ \E r \in MapperRandomness, c \in DiceChoices : apply_dice_roll_outcome(r, c)

PureSpec == Init /\ [][PureNext]_vars

\* ======================================================================
\* Properties
\* ======================================================================
SettleOps ==
    {"vrf_coin_flip_settle", "vrf_dice_roll_settle", "vrf_limbo_settle", "vrf_crash_settle"}

RequestOps ==
    {"vrf_coin_flip_request", "vrf_dice_roll_request", "vrf_limbo_request", "vrf_crash_request"}

Terminal(req) == req.status \in {"Settled", "Expired"}

Elapsed(req) == clock.slot - req.request_slot

Ready(v) == [state |-> "Ready", value |-> v, reveal_slot |-> clock.slot]
NotReady == [state |-> "NotReady", value |-> <<0, 0, 0, 0>>, reveal_slot |-> 0]
Invalid == [state |-> "Invalid", value |-> <<0, 0, 0, 0>>, reveal_slot |-> 0]

RECURSIVE PendingStakes(_)
PendingStakes(S) ==
    IF S = {} THEN 0
    ELSE LET id == CHOOSE x \in S : TRUE
         IN  (IF is_pending(vrf_request[id]) THEN vrf_request[id].amount ELSE 0)
             + PendingStakes(S \ {id})

\* ---- C1 ----------------------------------------------------------------
\* C1: once a request is Settled or Expired, every further Settle or Expire
\* on it is refused with VrfAlreadySettled (the Settle of its game kind and
\* Expire, whatever accounts and oracle value are supplied; no Settle of any
\* kind returns Ok), and no step commits a second Settle or Expire on it or
\* changes any of its fields (it can only be closed).
C1_Rejected ==
    \A id \in ReqIds :
        Terminal(vrf_request[id]) =>
            LET req == vrf_request[id] IN
            /\ \A ra \in RandomnessAccounts, pa \in Players, o \in OracleResults :
                  /\ settle_result(req.game_type, req, ra, pa, o) = "VrfAlreadySettled"
                  /\ \A gt \in GameTypes : settle_result(gt, req, ra, pa, o) # "Ok"
            /\ \A pa \in Players, k \in Keys :
                  expire_vrf_request_result(req, pa, k) = "VrfAlreadySettled"

C1_AtMostOnce ==
    \A id \in ReqIds :
        Terminal(vrf_request[id]) =>
            /\ ~(last'.id = id /\ last'.op \in SettleOps \cup {"expire_vrf_request"})
            /\ vrf_request'[id] \in {vrf_request[id], ClosedRequest}

Cex_C2 ==
    /\ house.pool >= 0
    /\ \A id \in ReqIds :
          is_pending(vrf_request[id]) => house.pool >= worst_case_payout(vrf_request[id])

\* ---- C3 ----------------------------------------------------------------
\* C3: a Settle commits only in a state where house.pool is at least the
\* request's worst-case payout (the liquidity check is re-run at Settle).
C3_SettleRechecks ==
    \A id \in ReqIds :
        (/\ last'.op \in SettleOps
         /\ last'.id = id
         /\ is_pending(vrf_request[id])
         /\ vrf_request'[id].status = "Settled")
        => house.pool >= worst_case_payout(vrf_request[id])

Cex_C3 == [][C3_SettleRechecks]_vars

\* ---- C4 ----------------------------------------------------------------
\* C4: whenever a request is Pending and the oracle returns a verified
\* value, the Settle of its game kind succeeds, in every reachable pool state.
Cex_C4 ==
    \A id \in ReqIds :
        is_pending(vrf_request[id]) =>
            LET req == vrf_request[id] IN
            \A v \in RandomValues :
                settle_result(req.game_type, req, req.randomness_account, req.player,
                              Ready(v)) = "Ok"

\* ---- C5 ----------------------------------------------------------------
\* C5: on a Pending request, Settle with an oracle value that is not ready
\* fails with VrfRandomnessNotReady, and Settle with randomness data that
\* does not parse, or with another randomness account than the recorded
\* one, fails with VrfInvalidRandomness; the failed Settle is no step, so
\* the request stays Pending and nothing changes.
Thm_C5 ==
    \A id \in ReqIds :
        is_pending(vrf_request[id]) =>
            LET req == vrf_request[id] IN
            /\ settle_result(req.game_type, req, req.randomness_account, req.player,
                             NotReady) = "VrfRandomnessNotReady"
            /\ settle_result(req.game_type, req, req.randomness_account, req.player,
                             Invalid) = "VrfInvalidRandomness"
            /\ \A ra \in RandomnessAccounts \ {req.randomness_account}, o \in OracleResults :
                  settle_result(req.game_type, req, ra, req.player, o)
                      = "VrfInvalidRandomness"

\* a Pending request past its window: Settle fails while the oracle is not
\* ready, and both a later Settle and Expire can still succeed
Wit_C5 ==
    \E id \in ReqIds :
        LET req == vrf_request[id] IN
        /\ is_pending(req)
        /\ clock.slot > req.request_slot
        /\ settle_result(req.game_type, req, req.randomness_account, req.player,
                         NotReady) = "VrfRandomnessNotReady"
        /\ \E v \in RandomValues :
              settle_result(req.game_type, req, req.randomness_account, req.player,
                            Ready(v)) = "Ok"
        /\ expire_vrf_request_result(req, req.player, req.player) = "Ok"

\* ---- C6 ----------------------------------------------------------------
\* C6: on a Pending request Expire returns Ok when at least 300 slots have
\* elapsed since request_slot and VrfNotExpired otherwise, and an Expire
\* commits only on a Pending request with at least 300 slots elapsed.
C6_Gate ==
    \A id \in ReqIds :
        is_pending(vrf_request[id]) =>
            LET req == vrf_request[id] IN
            \A k \in Keys :
                expire_vrf_request_result(req, req.player, k)
                    = IF clock.slot - req.request_slot >= 300 THEN "Ok" ELSE "VrfNotExpired"

C6_Only ==
    last'.op = "expire_vrf_request" =>
        LET req == vrf_request[last'.id] IN
        /\ is_pending(req)
        /\ clock.slot - req.request_slot >= 300
        /\ vrf_request'[last'.id].status = "Expired"

Thm_C6 == []C6_Gate /\ [][C6_Only]_vars

\* an Expire committed exactly 300 slots after the request
Wit_C6 ==
    /\ last.op = "expire_vrf_request"
    /\ vrf_request[last.id].status = "Expired"
    /\ clock.slot - vrf_request[last.id].request_slot = 300

\* ---- C7 ----------------------------------------------------------------
\* C7: a committed Expire moves exactly the request's stake from the house
\* account to the request's player, changes no other balance (so pays
\* nothing to the caller) and no house counter, and sets the status to
\* Expired leaving the stake and the player of the request as they were.
C7_Refund ==
    last'.op = "expire_vrf_request" =>
        LET req == vrf_request[last'.id] IN
        /\ lamports' = [lamports EXCEPT ![HOUSE] = @ - req.amount,
                                        ![req.player] = @ + req.amount]
        /\ vrf_request'[last'.id].status = "Expired"
        /\ vrf_request'[last'.id].amount = req.amount
        /\ vrf_request'[last'.id].player = req.player
        /\ house' = house
        /\ agent_stats' = agent_stats
        /\ lp_position' = lp_position

Thm_C7 == [][C7_Refund]_vars

\* after an Expire the player holds the initial balance again
Wit_C7 ==
    /\ last.op = "expire_vrf_request"
    /\ vrf_request[last.id].status = "Expired"
    /\ vrf_request[last.id].amount > 0
    /\ lamports[vrf_request[last.id].player] = InitialLamports

\* ---- C8 ----------------------------------------------------------------
\* C8: for a Pending request with at least 300 slots elapsed, Expire
\* returns Ok for every caller, whatever house.pool is (no oracle value is
\* an input of Expire).
Thm_C8 ==
    \A id \in ReqIds :
        (is_pending(vrf_request[id]) /\ Elapsed(vrf_request[id]) >= 300) =>
            \A k \in Keys :
                expire_vrf_request_result(vrf_request[id], vrf_request[id].player, k) = "Ok"

\* an Expire committed while the pool counter was below the refunded stake
Wit_C8 ==
    /\ last.op = "expire_vrf_request"
    /\ vrf_request[last.id].status = "Expired"
    /\ house.pool < vrf_request[last.id].amount

\* ---- C9 ----------------------------------------------------------------
\* C9: while fewer than 300 slots have elapsed, a Pending request changes
\* only by a committed Settle on it; the house account always holds the
\* stakes of the Pending requests; close_vrf_request returns NotCloseable
\* on a Pending request for every caller.
C9_Held ==
    /\ lamports[HOUSE] >= PendingStakes(ReqIds)
    /\ \A id \in ReqIds :
          is_pending(vrf_request[id]) =>
              \A k \in Keys : close_vrf_request_result(vrf_request[id], k) = "NotCloseable"

C9_NoEarly ==
    \A id \in ReqIds :
        (is_pending(vrf_request[id]) /\ clock.slot - vrf_request[id].request_slot < 300) =>
            \/ vrf_request'[id] = vrf_request[id]
            \/ /\ last'.op \in SettleOps
               /\ last'.id = id
               /\ vrf_request'[id].status = "Settled"

Thm_C9 == []C9_Held /\ [][C9_NoEarly]_vars

\* a Pending request one slot before its window ends, with the authority
\* refused to close it
Wit_C9 ==
    \E id \in ReqIds :
        /\ is_pending(vrf_request[id])
        /\ Elapsed(vrf_request[id]) = 299
        /\ close_vrf_request_result(vrf_request[id], house.authority) = "NotCloseable"

\* ---- C10 ---------------------------------------------------------------
\* C10: a committed Request creates the request with index total_games in
\* status Pending, with no result or payout yet, recording the player, a
\* stake of at least min_bet, the randomness account and the current slot;
\* the player's balance falls and the house account's balance rises by
\* exactly that stake, and no other balance and not house.pool changes.
C10_Escrow ==
    last'.op \in RequestOps =>
        LET id == house.total_games
            new == vrf_request'[id]
        IN  /\ last'.id = id
            /\ vrf_request[id].status = "Uninit"
            /\ new.status = "Pending"
            /\ new.result = 0 /\ new.payout = 0 /\ new.settled_at = 0
            /\ new.player \in Players
            /\ new.amount >= house.min_bet
            /\ new.randomness_account \in RandomnessAccounts
            /\ new.request_slot = clock.slot
            /\ new.created_at = clock.unix_timestamp
            /\ new.game_index = id
            /\ lamports' = [lamports EXCEPT ![new.player] = @ - new.amount,
                                            ![HOUSE] = @ + new.amount]
            /\ house'.pool = house.pool
            /\ \A other \in ReqIds \ {id} : vrf_request'[other] = vrf_request[other]

SpecNet(stake, multiplierCenti, edgeBps) ==
    LET gross == (stake * multiplierCenti) \div 100
    IN  gross - ((gross * edgeBps) \div 10000)

\* the most a bet can cost the pool: the net payout of a coin flip or dice
\* win, stake * multiplier / 100 for limbo and crash
SpecWorstCase(kind, stake, param) ==
    IF kind = "CoinFlip" THEN SpecNet(stake, 200, house.house_edge_bps)
    ELSE IF kind = "DiceRoll" THEN SpecNet(stake, 600 \div param, house.house_edge_bps)
    ELSE (stake * param) \div 100

SpecMaxBet == (house.pool * house.max_bet_percent) \div 100

GameParams(kind) ==
    IF kind = "CoinFlip" THEN CoinChoices
    ELSE IF kind = "DiceRoll" THEN DiceTargets
    ELSE TargetMultipliers

ValidParam(kind, param) ==
    IF kind = "CoinFlip" THEN param \in {0, 1}
    ELSE IF kind = "DiceRoll" THEN param \in 1 .. 5
    ELSE param \in 101 .. 10000

\* the parameter a request records: the choice or the target multiplier
RecordedParam(req) ==
    IF req.game_type \in {"CoinFlip", "DiceRoll"} THEN req.choice ELSE req.target_multiplier

RequestResult(kind, player, amount, param) ==
    IF kind = "CoinFlip" THEN vrf_coin_flip_request_result(player, amount, param)
    ELSE IF kind = "DiceRoll" THEN vrf_dice_roll_request_result(player, amount, param)
    ELSE target_request_result(player, amount, param)

\* C11: for a Request with valid game parameters and a stake of at least
\* min_bet (from a player who holds the stake), the handler returns Ok iff
\* the stake is at most floor(pool * max_bet_percent / 100) and the
\* worst-case payout is at most house.pool; and every Request that commits
\* satisfied both conditions in the state it was made in.
C11_Admits ==
    house.initialized =>
        \A kind \in GameTypes, p \in Players, a \in BetAmounts :
            \A param \in GameParams(kind) :
                (ValidParam(kind, param) /\ a >= house.min_bet /\ lamports[p] >= a) =>
                    (RequestResult(kind, p, a, param) = "Ok"
                        <=> (a <= SpecMaxBet /\ SpecWorstCase(kind, a, param) <= house.pool))

C11_OnlyAdmitted ==
    last'.op \in RequestOps =>
        LET new == vrf_request'[last'.id] IN
        /\ new.amount <= SpecMaxBet
        /\ SpecWorstCase(new.game_type, new.amount, RecordedParam(new)) <= house.pool

Thm_C11 == []C11_Admits /\ [][C11_OnlyAdmitted]_vars

\* a funded pool just after a bet was admitted, where a larger stake and a
\* bet with a higher target are both refused
Wit_C11 ==
    /\ last.op \in RequestOps
    /\ house.pool = 1000
    /\ vrf_request[last.id].amount = 100
    /\ target_request_result("p2", 150, 1000) = "BetTooLarge"
    /\ target_request_result("p2", 100, 10000) = "InsufficientLiquidity"
    /\ target_request_result("p2", 100, 1000) = "Ok"
\* ---- C12 ---------------------------------------------------------------
\* C12: for a Request with valid game parameters the handler reports the
\* first failing check of the order minimum bet, maximum bet, worst-case
\* payout: BetTooSmall whenever the stake is below min_bet, whatever the
\* pool; else BetTooLarge whenever the stake exceeds
\* floor(pool * max_bet_percent / 100); else InsufficientLiquidity whenever
\* the worst-case payout exceeds the pool.
Thm_C12 ==
    house.initialized =>
        \A kind \in GameTypes, p \in Players, a \in BetAmounts :
            \A param \in GameParams(kind) :
                ValidParam(kind, param) =>
                    LET r == RequestResult(kind, p, a, param) IN
                    /\ a < house.min_bet => r = "BetTooSmall"
                    /\ (a >= house.min_bet /\ a > SpecMaxBet) => r = "BetTooLarge"
                    /\ (a >= house.min_bet /\ a <= SpecMaxBet
                          /\ SpecWorstCase(kind, a, param) > house.pool)
                        => r = "InsufficientLiquidity"

\* a pool that could cover a stake below min_bet, which is refused all the
\* same, and a bet that is both too large and not covered
Wit_C12 ==
    /\ house.initialized
    /\ 40 < house.min_bet
    /\ 40 <= SpecMaxBet
    /\ SpecWorstCase("CoinFlip", 40, 1) <= house.pool
    /\ vrf_coin_flip_request_result("p1", 40, 1) = "BetTooSmall"
    /\ 150 > SpecMaxBet
    /\ SpecWorstCase("Limbo", 150, 10000) > house.pool
    /\ target_request_result("p1", 150, 10000) = "BetTooLarge"
\* ---- C13 ---------------------------------------------------------------
\* C13: a Request with an invalid parameter is refused with InvalidChoice,
\* InvalidTarget or InvalidMultiplier; a request is created, total_games or
\* total_volume change, or a stake enters the house account only in a step
\* that commits a Request whose parameter is valid and whose stake passes
\* the minimum-bet, maximum-bet and worst-case-payout checks in the state it
\* is made in; and no Request changes house.pool or total_payout.
C13_Typed ==
    house.initialized =>
        \A kind \in GameTypes, p \in Players, a \in BetAmounts :
            \A param \in GameParams(kind) :
                ~ValidParam(kind, param) =>
                    RequestResult(kind, p, a, param)
                        = IF kind = "CoinFlip" THEN "InvalidChoice"
                          ELSE IF kind = "DiceRoll" THEN "InvalidTarget"
                          ELSE "InvalidMultiplier"

C13_Passes(req) ==
    /\ ValidParam(req.game_type, RecordedParam(req))
    /\ req.amount >= house.min_bet
    /\ req.amount <= SpecMaxBet
    /\ SpecWorstCase(req.game_type, req.amount, RecordedParam(req)) <= house.pool

C13_NoPartialEffect ==
    /\ last'.op \in RequestOps =>
          /\ C13_Passes(vrf_request'[last'.id])
          /\ house'.pool = house.pool
          /\ house'.total_payout = house.total_payout
    /\ last'.op \notin RequestOps =>
          /\ house'.total_games = house.total_games
          /\ house'.total_volume = house.total_volume
          /\ \A id \in ReqIds :
                vrf_request[id].status = "Uninit" => vrf_request'[id] = vrf_request[id]
          /\ \A p \in Players : lamports'[p] >= lamports[p]

Thm_C13 == []C13_Typed /\ [][C13_NoPartialEffect]_vars

\* a funded pool with no request yet, in which each of the six rejections
\* is the answer to some Request
Wit_C13 ==
    /\ house.pool = 1000
    /\ house.total_games = 0 /\ house.total_volume = 0
    /\ \A id \in ReqIds : vrf_request[id].status = "Uninit"
    /\ lamports["p1"] = InitialLamports
    /\ vrf_coin_flip_request_result("p1", 100, 2) = "InvalidChoice"
    /\ vrf_dice_roll_request_result("p1", 100, 6) = "InvalidTarget"
    /\ target_request_result("p1", 100, 100) = "InvalidMultiplier"
    /\ vrf_coin_flip_request_result("p1", 40, 1) = "BetTooSmall"
    /\ vrf_coin_flip_request_result("p1", 150, 1) = "BetTooLarge"
    /\ target_request_result("p1", 100, 10000) = "InsufficientLiquidity"
\* ---- C14 ---------------------------------------------------------------
\* the multiplier of a request in centi-units
SpecMultiplier(req) ==
    IF req.game_type = "CoinFlip" THEN 200
    ELSE IF req.game_type = "DiceRoll" THEN 600 \div req.choice
    ELSE req.target_multiplier

\* a committed Settle of request id with the given payout for a win: the
\* handler counted a win iff the player's wins went up
C14_Accounting(id, pay) ==
    LET req == vrf_request[id]
        won == agent_stats'[req.player].wins = agent_stats[req.player].wins + 1
    IN  IF won
        THEN /\ lamports' = [lamports EXCEPT ![HOUSE] = @ - pay, ![req.player] = @ + pay]
             /\ vrf_request'[id].payout = pay
             /\ house'.total_payout = house.total_payout + pay
             /\ house'.pool = house.pool - (pay - req.amount)
        ELSE /\ lamports' = lamports
             /\ vrf_request'[id].payout = 0
             /\ house'.total_payout = house.total_payout
             /\ house'.pool = house.pool + req.amount

\* C14 as stated: every winning Settle pays net = gross - edgeAmount with
\* gross = floor(stake * multiplier / 100) and
\* edgeAmount = floor(gross * edge / 10000), adds net to total_payout and
\* takes net - stake from house.pool; a losing Settle pays nothing and adds
\* the stake to house.pool.
C14_AsStated ==
    \A id \in ReqIds :
        (last'.op \in SettleOps /\ last'.id = id) =>
            C14_Accounting(id, SpecNet(vrf_request[id].amount,
                                       SpecMultiplier(vrf_request[id]),
                                       house.house_edge_bps))

C14_Amended ==
    \A id \in ReqIds :
        (last'.op \in SettleOps /\ last'.id = id) =>
            C14_Accounting(id, SpecWorstCase(vrf_request[id].game_type,
                                             vrf_request[id].amount,
                                             RecordedParam(vrf_request[id])))

C14_Instance ==
    /\ payout_lamports(10000, 200, 100) = 19800
    /\ 1000000 - (payout_lamports(10000, 200, 100) - 10000) = 990200

IsFloorDiv(q, x, d) ==
    /\ wide_le(wide_mul(q, d), x)
    /\ ~wide_le(wide_mul(wide_mul_from(q, 1, 1, 1), d), x)

\* a wide value below 10^8, which from_wide reads exactly
IsSmall(w) == \A i \in 3 .. WIDE_LIMBS : w[i] = 0

\* C15: for every applied stake, multiplier and edge <= 1000 whose gross
\* payout floor(stake * multiplier / 100) fits 64 bits, calculate_payout
\* returns gross - edgeAmount with edgeAmount = floor(gross * edge / 10000);
\* on small inputs this is the value the formula gives in the integers.
Thm_C15 ==
    (calc.op = "calculate_payout" /\ calc.house_edge_bps <= 1000) =>
        LET x == wide_mul(calc.amount, calc.multiplier)
            gross == wide_div(x, 100)
            y == wide_mul(gross, calc.house_edge_bps)
            edgeAmount == wide_div(y, 10000)
        IN  wide_le(gross, U64_MAX) =>
                /\ IsFloorDiv(gross, x, 100)
                /\ IsFloorDiv(edgeAmount, y, 10000)
                /\ wide_le(edgeAmount, gross)
                /\ calc.out = wide_sub(gross, edgeAmount)
                /\ (IsSmall(calc.amount) /\ calc.multiplier <= 600) =>
                      from_wide(calc.out) = SpecNet(from_wide(calc.amount),
                                                    calc.multiplier, calc.house_edge_bps)

\* stake 2^63 - 1 at multiplier 200 and edge 1000: gross 2^64 - 2 fits, and
\* the net is 16602069666338596453
Wit_C15 ==
    /\ calc.op = "calculate_payout"
    /\ calc.amount = <<5807, 5477, 368, 3372, 922, 0, 0>>
    /\ calc.multiplier = 200
    /\ calc.house_edge_bps = 1000
    /\ calc.out = <<6453, 3859, 6663, 2069, 1660, 0, 0>>
Thm_C17 ==
    calc.op = "calculate_payout" =>
        /\ \A m \in PayoutMultipliers :
              m >= calc.multiplier =>
                  wide_le(calc.out, calculate_payout(calc.amount, m, calc.house_edge_bps))
        /\ \A e \in PayoutEdges :
              e >= calc.house_edge_bps =>
                  wide_le(calculate_payout(calc.amount, calc.multiplier, e), calc.out)

\* stake 10000 at multiplier 200 and edge 100: 19800, more at multiplier
\* 300 and less at edge 1000
Wit_C17 ==
    /\ calc.op = "calculate_payout"
    /\ calc.amount = to_wide(10000)
    /\ calc.multiplier = 200
    /\ calc.house_edge_bps = 100
    /\ calc.out = to_wide(19800)
    /\ calculate_payout(calc.amount, 300, 100) = to_wide(29700)
    /\ calculate_payout(calc.amount, 200, 1000) = to_wide(18000)
\* ---- C18 ---------------------------------------------------------------
\* C18: for every applied raw word and house edge in 0..1000,
\* calculate_limbo_result and calculate_crash_point return a multiplier in
\* 100..10000.
Thm_C18 ==
    (calc.op \in {"calculate_limbo_result", "calculate_crash_point"}
        /\ calc.house_edge_bps \in 0 .. 1000)
    => (calc.out >= 100 /\ calc.out <= 10000)

\* raw word 0 at edge 1000: 9000 * 100 / 10000 = 90 is raised to 100
Wit_C18 ==
    /\ calc.op = "calculate_limbo_result"
    /\ calc.raw = [hi |-> 0, lo |-> 0]
    /\ calc.house_edge_bps = 1000
    /\ calc.out = 100

\* ---- C19 ---------------------------------------------------------------
\* raw * 9900 as a wide value
SpecScaled(raw) == wide_mul(wide_mul_from(to_wide(raw.hi), 65536, 1, raw.lo), 9900)

\* n * (2^32 - 1) as a wide value; 2^32 - 1 = 65535 * 65537
SpecTimesU32Max(n) == wide_mul(wide_mul(to_wide(n), 65535), 65537)

\* C19: for every applied raw word, normalized_bps is
\* floor(raw * 9900 / (2^32 - 1)) and the denominator 10000 - normalized_bps
\* is at least 1 (it is at least 100).
Thm_C19 ==
    calc.op \in {"calculate_limbo_result", "calculate_crash_point"} =>
        LET n == normalized_bps(calc.raw) IN
        /\ wide_le(SpecTimesU32Max(n), SpecScaled(calc.raw))
        /\ ~wide_le(SpecTimesU32Max(n + 1), SpecScaled(calc.raw))
        /\ 10000 - n >= 1
        /\ 10000 - n >= 100

\* the largest raw word: normalized_bps is 9900 and the denominator 100
Wit_C19 ==
    /\ calc.op = "calculate_crash_point"
    /\ calc.raw = [hi |-> 65535, lo |-> 65535]
    /\ normalized_bps(calc.raw) = 9900
    /\ calc.out = 10000 - calc.house_edge_bps
\* ---- C20 ---------------------------------------------------------------
\* C20: vrf_dice_roll_request answers InvalidTarget exactly for the targets
\* outside 1..5 (so for 0 and 6); for a target in 1..5 its liquidity check
\* uses the net payout at multiplier floor(600 / target); only targets in
\* 1..5 are ever recorded, and a winning dice Settle pays the net payout at
\* the same multiplier floor(600 / target).
C20_Accepts ==
    house.initialized =>
        \A p \in Players, a \in BetAmounts, t \in 0 .. 7 :
            LET r == vrf_dice_roll_request_result(p, a, t) IN
            /\ (r = "InvalidTarget") <=> ~(1 <= t /\ t <= 5)
            /\ (1 <= t /\ t <= 5 /\ a >= house.min_bet /\ a <= SpecMaxBet
                    /\ lamports[p] >= a)
               => (r = "Ok" <=> SpecNet(a, 600 \div t, house.house_edge_bps) <= house.pool)

C20_SameMultiplier ==
    /\ last'.op = "vrf_dice_roll_request" =>
          vrf_request'[last'.id].choice \in 1 .. 5
    /\ last'.op = "vrf_dice_roll_settle" =>
          LET req == vrf_request[last'.id]
              new == vrf_request'[last'.id]
          IN  /\ req.choice \in 1 .. 5
              /\ new.payout = IF new.result <= req.choice
                              THEN SpecNet(req.amount, 600 \div req.choice,
                                           house.house_edge_bps)
                              ELSE 0

Thm_C20 == []C20_Accepts /\ [][C20_SameMultiplier]_vars

\* a dice bet of 100 on target 5 that won 119 = 120 - 1, with targets 0 and
\* 6 refused
Wit_C20 ==
    /\ last.op = "vrf_dice_roll_settle"
    /\ vrf_request[last.id].choice = 5
    /\ vrf_request[last.id].amount = 100
    /\ vrf_request[last.id].payout = 119
    /\ vrf_dice_roll_request_result("p1", 100, 6) = "InvalidTarget"
    /\ vrf_dice_roll_request_result("p1", 100, 0) = "InvalidTarget"
\* ---- C21 ---------------------------------------------------------------
\* the little-endian word of four bytes, reduced modulo n (the word itself
\* can exceed the integers of the checker: 2^31 = 2 * 2^30 is reduced apart)
SpecWordMod(b, n) ==
    LET top == IF b[4] >= 128 THEN b[4] - 128 ELSE b[4]
        low == b[1] + 256 * b[2] + 65536 * b[3] + 16777216 * top
    IN  IF b[4] >= 128 THEN ((low % n) + 2 * (1073741824 % n)) % n ELSE low % n

DiceRequest(choice) == [NoRequest EXCEPT !.game_type = "DiceRoll", !.choice = choice]

\* the targets vrf_dice_roll_request does not refuse as InvalidTarget
AcceptedDiceTarget(t) == vrf_dice_roll_request_result("p1", 0, t) # "InvalidTarget"

\* C21: the dice value is (word mod 6) + 1 for the little-endian word of the
\* first four random bytes, it lies in 1..6, the bet wins iff value <= target,
\* and every accepted target has a winning and a losing word.
Thm_C21 ==
    /\ (calc.op = "dice_roll_outcome" /\ AcceptedDiceTarget(calc.choice)) =>
          /\ calc.err = "Ok"
          /\ calc.out = SpecWordMod(calc.randomness, 6) + 1
          /\ calc.out \in 1 .. 6
          /\ calc.won <=> (calc.out <= calc.choice)
    /\ \A t \in DiceChoices :
          (calc = NoCalc /\ AcceptedDiceTarget(t)) =>
             /\ \E r \in MapperRandomness : dice_roll_outcome(DiceRequest(t), r).won
             /\ \E r \in MapperRandomness : ~dice_roll_outcome(DiceRequest(t), r).won

\* a roll of 6 against the largest accepted target, from a word above 2^31
Wit_C21 ==
    /\ calc.op = "dice_roll_outcome"
    /\ calc.choice = 5
    /\ calc.randomness[4] = 255
    /\ calc.out = 6
    /\ ~calc.won
\* ---- C22 ---------------------------------------------------------------
\* revealed values whose first and second byte differ in parity
CoinRandomness == {<<a, b, 0, 0>> : a \in {0, 1, 2, 255}, b \in {0, 1}}

\* C22: the coin-flip bit is randomness[0] mod 2 and the bet wins iff the bit
\* equals the request's choice; a coin-flip Request with a choice other than
\* 0 or 1 is refused with InvalidChoice, so a recorded choice is 0 or 1.
C22_Bit ==
    \A id \in ReqIds :
        (is_pending(vrf_request[id]) /\ vrf_request[id].game_type = "CoinFlip") =>
            \A v \in CoinRandomness :
                LET out == coin_flip_outcome(vrf_request[id], v) IN
                /\ out.err = "Ok"
                /\ out.result = v[1] % 2
                /\ out.won <=> (v[1] % 2 = vrf_request[id].choice)
                /\ (out.payout > 0) => out.won

C22_Choice ==
    /\ \A id \in ReqIds :
          vrf_request[id].game_type = "CoinFlip" => vrf_request[id].choice \in {0, 1}
    /\ house.initialized =>
          \A p \in Players, a \in BetAmounts, c \in CoinChoices :
              (vrf_coin_flip_request_result(p, a, c) = "InvalidChoice") <=> (c \notin {0, 1})

C22_Settle ==
    last'.op = "vrf_coin_flip_settle" =>
        LET req == vrf_request[last'.id]
            bit == vrf_request'[last'.id].result
            st == agent_stats[req.player]
            st2 == agent_stats'[req.player]
        IN  /\ bit \in {0, 1}
            /\ (bit = req.choice) => (st2.wins = st.wins + 1 /\ st2.losses = st.losses)
            /\ (bit # req.choice) => (st2.wins = st.wins /\ st2.losses = st.losses + 1
                                      /\ vrf_request'[last'.id].payout = 0)

Thm_C22 == [](C22_Bit /\ C22_Choice) /\ [][C22_Settle]_vars

\* a coin flip on choice 0 settled as a win with bit 0
Wit_C22 ==
    \E id \in ReqIds :
        /\ vrf_request[id].status = "Settled"
        /\ vrf_request[id].game_type = "CoinFlip"
        /\ vrf_request[id].choice = 0
        /\ vrf_request[id].result = 0
        /\ vrf_request[id].payout > 0
        /\ agent_stats[vrf_request[id].player].wins = 1
\* ---- C23 ---------------------------------------------------------------
ResolveOps == SettleOps \cup {"expire_vrf_request"}

\* what a Settle of the Pending request id with revealed value v answers
\* and pays when the house account holds house_lamports and counts pool
SettleAnswer(id, v, house_lamports, pool) ==
    LET req == vrf_request[id]
        out == game_outcome(req.game_type, req, v)
    IN  [err |-> IF out.err # "Ok" THEN out.err
                 ELSE payment_result(req.amount, out, house_lamports, pool),
         payout |-> out.payout]

ExpireAnswer(id) ==
    expire_vrf_request_result(vrf_request[id], vrf_request[id].player, vrf_request[id].player)

\* C23: resolving one Pending request (Settle or Expire) changes neither
\* whether another Pending request can be settled or expired nor what it
\* pays.
C23_Independent ==
    \A a, b \in ReqIds :
        (/\ a # b
         /\ is_pending(vrf_request[a]) /\ is_pending(vrf_request[b])
         /\ last'.op \in ResolveOps /\ last'.id = a
         /\ ~is_pending(vrf_request'[a]))
        => /\ vrf_request'[b] = vrf_request[b]
           /\ house'.house_edge_bps = house.house_edge_bps
           /\ \A v \in RandomValues :
                 /\ SettleAnswer(b, v, lamports[HOUSE], house.pool).err
                      = settle_result(vrf_request[b].game_type, vrf_request[b],
                                      vrf_request[b].randomness_account,
                                      vrf_request[b].player, Ready(v))
                 /\ SettleAnswer(b, v, lamports'[HOUSE], house'.pool)
                      = SettleAnswer(b, v, lamports[HOUSE], house.pool)
           /\ ExpireAnswer(b)' = ExpireAnswer(b)

Cex_C23 == [][C23_Independent]_vars
\* ---- C24 ---------------------------------------------------------------
\* C24: a request is created Pending (result 0, payout 0) by a Request, and
\* once it is Settled or Expired no step changes any field of it; the only
\* step that touches it is close_vrf_request, which removes the record.
C24_Terminal ==
    \A id \in ReqIds :
        Terminal(vrf_request[id]) =>
            \/ vrf_request'[id] = vrf_request[id]
            \/ /\ last' = Committed("close_vrf_request", id)
               /\ vrf_request'[id] = ClosedRequest

C24_StartsPending ==
    \A id \in ReqIds :
        /\ (vrf_request[id].status = "Uninit" /\ vrf_request'[id] # vrf_request[id]) =>
              /\ last'.op \in RequestOps /\ last'.id = id
              /\ vrf_request'[id].status = "Pending"
              /\ vrf_request'[id].result = 0
              /\ vrf_request'[id].payout = 0
              /\ vrf_request'[id].settled_at = 0
        /\ vrf_request[id].status = "Closed" => vrf_request'[id] = vrf_request[id]
        /\ (is_pending(vrf_request[id]) /\ vrf_request'[id] # vrf_request[id]) =>
              /\ Terminal(vrf_request'[id])
              /\ vrf_request'[id].amount = vrf_request[id].amount
              /\ vrf_request'[id].player = vrf_request[id].player

Thm_C24 == [][C24_Terminal /\ C24_StartsPending]_vars

\* a request settled with a payout that later steps (slots passing the
\* expiry window) have left as it was
Wit_C24 ==
    \E id \in ReqIds :
        /\ vrf_request[id].status = "Settled"
        /\ vrf_request[id].payout > 0
        /\ Elapsed(vrf_request[id]) >= VRF_EXPIRY_SLOTS
        /\ last.op = "advance_clock"
\* ---- C25 ---------------------------------------------------------------
\* the house parameters that only initialize_house writes
HouseParams(h) == <<h.authority, h.house_edge_bps, h.min_bet, h.max_bet_percent>>

\* C25: in every reachable state the pool's house_edge_bps is at most 1000
\* and its max_bet_percent is in 1..10; initialize_house refuses an edge above
\* 1000 with HouseEdgeTooHigh and a percentage outside 1..10 with
\* InvalidMaxBet, succeeds at most once, and no later step changes the edge,
\* the minimum bet, the percentage or the authority.
C25_Range ==
    house.initialized =>
        /\ house.house_edge_bps >= 0 /\ house.house_edge_bps <= 1000
        /\ house.max_bet_percent >= 1 /\ house.max_bet_percent <= 10

C25_Rejects ==
    \A e \in {0, 1000, 1001, 65535}, p \in {0, 1, 10, 11, 255} :
        initialize_house_result(e, p)
            = IF house.initialized THEN "AccountAlreadyInUse"
              ELSE IF e > 1000 THEN "HouseEdgeTooHigh"
              ELSE IF p < 1 \/ p > 10 THEN "InvalidMaxBet"
              ELSE "Ok"

C25_Once ==
    /\ last'.op = "initialize_house" => (~house.initialized /\ house'.initialized)
    /\ house.initialized =>
          (house'.initialized /\ HouseParams(house') = HouseParams(house))
    /\ last'.op # "initialize_house" => house'.initialized = house.initialized

Thm_C25 == [](C25_Range /\ C25_Rejects) /\ [][C25_Once]_vars

\* an initialized pool that has taken liquidity and a settled bet, where a
\* second initialize_house is refused
Wit_C25 ==
    /\ house.initialized
    /\ house.house_edge_bps = 100 /\ house.max_bet_percent = 10
    /\ house.authority = "auth"
    /\ house.total_games > 0 /\ house.total_payout > 0
    /\ initialize_house_result(100, 10) = "AccountAlreadyInUse"
\* ---- C26 ---------------------------------------------------------------
\* C26: a Settle succeeds only with a value the oracle revealed for a slot at
\* or after the request's request_slot; with a value revealed for an earlier
\* slot the Settle of a Pending request fails with VrfRandomnessNotReady.
C26_Fresh ==
    \A id \in ReqIds :
        is_pending(vrf_request[id]) =>
            LET req == vrf_request[id] IN
            /\ clock.slot >= req.request_slot
            /\ \A ra \in RandomnessAccounts, pa \in Players, o \in OracleResults :
                  settle_result(req.game_type, req, ra, pa, o) = "Ok" =>
                      (o.state = "Ready" /\ o.reveal_slot >= req.request_slot)

C26_Stale ==
    \A id \in ReqIds :
        is_pending(vrf_request[id]) =>
            LET req == vrf_request[id] IN
            \A o \in OracleResults :
                (o.state = "Ready" /\ o.reveal_slot < req.request_slot) =>
                    settle_result(req.game_type, req, req.randomness_account, req.player, o)
                        = "VrfRandomnessNotReady"

Thm_C26 == C26_Fresh /\ C26_Stale

\* a request created after the first slot: a value revealed in the first
\* slot is refused and a value revealed now settles it
Wit_C26 ==
    \E id \in ReqIds :
        LET req == vrf_request[id] IN
        /\ is_pending(req)
        /\ req.request_slot > 0
        /\ \E o \in OracleResults :
              /\ o.state = "Ready" /\ o.reveal_slot = 0
              /\ settle_result(req.game_type, req, req.randomness_account, req.player, o)
                    = "VrfRandomnessNotReady"
        /\ \E v \in RandomValues :
              settle_result(req.game_type, req, req.randomness_account, req.player,
                            Ready(v)) = "Ok"
\* ---- C27 ---------------------------------------------------------------
\* C27: for every completed challenge the recorded result is the first byte
\* of combine_seeds(recorded server_seed, recorded client_seed, challenger)
\* mod 2, and the recorded winner is the challenger iff the result equals
\* the challenger's choice (the acceptor otherwise).
Thm_C27 ==
    challenge.status = "Completed" =>
        LET replay == combine_seeds(challenge.server_seed, challenge.client_seed,
                                    challenge.challenger)[1] % 2
        IN  /\ challenge.result = replay
            /\ (challenge.winner = challenge.challenger) <=> (replay = challenge.choice)
            /\ (challenge.winner = challenge.acceptor) <=> (replay # challenge.choice)
            /\ challenge.acceptor # challenge.challenger

\* a challenge the acceptor won, on a recorded client seed that is not zero
Wit_C27 ==
    /\ challenge.status = "Completed"
    /\ challenge.winner = challenge.acceptor
    /\ challenge.client_seed # ZeroSeed
    /\ challenge.result # challenge.choice
    /\ lamports[challenge.acceptor] > InitialLamports
\* ---- C28 ---------------------------------------------------------------
\* C28: after any sequence of add_liquidity, remove_liquidity, Request,
\* Settle, Expire and accept_challenge the house account holds, above its
\* rent, exactly house.pool plus the stakes of the Pending requests; an open
\* challenge's stake is held by the challenge account, not by the house.
Thm_C28 ==
    /\ lamports[HOUSE] = house.pool + PendingStakes(ReqIds)
    /\ lamports[CHALLENGE] = IF challenge.status = "Open" THEN challenge.amount ELSE 0

\* a house that has taken its edge of a completed challenge and holds the
\* stake of a Pending request
Wit_C28 ==
    /\ challenge.status = "Completed"
    /\ PendingStakes(ReqIds) = 100
    /\ house.pool = 1002
    /\ lamports[HOUSE] = 1102
\* ---- C29 ---------------------------------------------------------------
\* C29: the house account always holds at least the stakes of its Pending
\* requests, so Expire answers Ok on every Pending request whose window has
\* elapsed; with the clock advancing and Expire attempted on every request,
\* every Pending request eventually is Settled or Expired.
C29_Covered ==
    /\ lamports[HOUSE] >= PendingStakes(ReqIds)
    /\ \A id \in ReqIds :
          (is_pending(vrf_request[id]) /\ Elapsed(vrf_request[id]) >= VRF_EXPIRY_SLOTS) =>
              expire_vrf_request_result(vrf_request[id], vrf_request[id].player,
                                        vrf_request[id].player) = "Ok"

C29_Resolved ==
    \A id \in ReqIds : is_pending(vrf_request[id]) ~> Terminal(vrf_request[id])

Thm_C29 == []C29_Covered /\ C29_Resolved

\* two requests in flight past their window after the pool was withdrawn:
\* the house account holds their stakes and nothing else
Wit_C29 ==
    /\ house.pool = 0
    /\ PendingStakes(ReqIds) = 200
    /\ lamports[HOUSE] = 200
    /\ \A id \in ReqIds :
          is_pending(vrf_request[id]) => Elapsed(vrf_request[id]) >= VRF_EXPIRY_SLOTS
\* ---- C30 ---------------------------------------------------------------
\* worst-case payouts a later request can be checked against
C30_Payouts == {0, 198, 1000, 1001, 1100}

\* C30: a Request and an Expire leave house.pool and total_payout as they
\* were: the stake of a Request enters the house account only, so the
\* minimum-bet, maximum-bet and liquidity checks answer a later request as
\* they did before it; a losing Settle is what adds the stake to house.pool.
C30_Frame ==
    /\ last'.op \in RequestOps =>
          LET stake == vrf_request'[last'.id].amount IN
          /\ stake > 0
          /\ house'.pool = house.pool
          /\ house'.total_payout = house.total_payout
          /\ lamports'[HOUSE] = lamports[HOUSE] + stake
          /\ max_bet' = max_bet
          /\ \A a \in BetAmounts, mp \in C30_Payouts :
                liquidity_guard(a, mp)' = liquidity_guard(a, mp)
    /\ last'.op = "expire_vrf_request" =>
          /\ house'.pool = house.pool
          /\ house'.total_payout = house.total_payout
          /\ lamports'[HOUSE] = lamports[HOUSE] - vrf_request[last'.id].amount
    /\ (last'.op \in SettleOps /\ vrf_request'[last'.id].payout = 0) =>
          /\ house'.pool = house.pool + vrf_request[last'.id].amount
          /\ house'.total_payout = house.total_payout
          /\ lamports'[HOUSE] = lamports[HOUSE]

Thm_C30 == [][C30_Frame]_vars

\* a second request admitted at the maximum bet of a pool that does not
\* count the first request's stake, which the house account holds
Wit_C30 ==
    /\ last.op \in RequestOps
    /\ \A id \in ReqIds : is_pending(vrf_request[id]) /\ vrf_request[id].amount = 100
    /\ house.pool = 1000
    /\ max_bet = 100
    /\ lamports[HOUSE] = 1200
\* ---- C31 ---------------------------------------------------------------
\* the multipliers of the admitted coin-flip and dice requests
C31_Multipliers ==
    {COIN_FLIP_MULTIPLIER} \cup {settle_dice_multiplier(t) : t \in 1 .. 5}

\* a stake that passes amount <= pool * max_bet_percent / 100 for some pool:
\* the checked product pool * max_bet_percent fits 64 bits
C31_AdmittedStake(amount) == wide_le(wide_mul(amount, 100), U64_MAX)

C31_Stakes == 0 .. 40
C31_Edges == {0, 1, 500, 999, MAX_HOUSE_EDGE_BPS}
C31_Targets == {MIN_TARGET_MULTIPLIER, 150, MAX_TARGET_MULTIPLIER}

\* on the small stakes, where the two floors bite: the winning payout of
\* every admitted kind covers the stake, and the net-loss subtraction of the
\* settle handler has a value
C31_Small ==
    /\ \A a \in C31_Stakes, m \in C31_Multipliers, e \in C31_Edges :
          /\ payout_lamports(a, m, e) >= a
          /\ checked_sub(payout_lamports(a, m, e), a) # None
    /\ \A a \in C31_Stakes, t \in C31_Targets :
          /\ target_payout(a, t) >= a
          /\ checked_sub(target_payout(a, t), a) # None

\* C31: for every admitted stake, every admitted multiplier (200 for a coin
\* flip, 600 / target for a dice target 1..5, the target 101..10000 of a
\* limbo or crash request) and every edge <= 1000, the winning payout is at
\* least the stake, so payout - stake in Settle does not underflow.
Thm_C31 ==
    /\ (calc = NoCalc) => C31_Small
    /\ (/\ calc.op = "calculate_payout"
        /\ calc.multiplier \in C31_Multipliers
        /\ calc.house_edge_bps <= MAX_HOUSE_EDGE_BPS
        /\ C31_AdmittedStake(calc.amount))
       => wide_le(calc.amount, calc.out)
    /\ (/\ calc.op = "checked_target_payout"
        /\ calc.multiplier >= MIN_TARGET_MULTIPLIER
        /\ calc.multiplier <= MAX_TARGET_MULTIPLIER
        /\ C31_AdmittedStake(calc.amount))
       => (calc.err = "Ok" /\ wide_le(calc.amount, calc.out))

\* a stake of 99 on dice target 5 (multiplier 120) at the largest edge: the
\* gross is 118, the edge 11, the payout 107
Wit_C31 ==
    /\ calc.op = "calculate_payout"
    /\ calc.multiplier = 120
    /\ calc.house_edge_bps = MAX_HOUSE_EDGE_BPS
    /\ calc.amount = to_wide(99)
    /\ calc.out = to_wide(107)
\* ---- C32 ---------------------------------------------------------------
\* the stakes at the edges of the admitted range of the current house
C32_Stakes == BetAmounts \cup {house.min_bet, max_bet, max_bet + 1}

\* the request handlers' checks on the current house never end in
\* InsufficientLiquidity, whatever the player, stake, choice or target
C32_Unreachable ==
    house.initialized =>
        \A p \in Players, a \in C32_Stakes :
            /\ \A c \in CoinChoices :
                  vrf_coin_flip_request_result(p, a, c) # "InsufficientLiquidity"
            /\ \A t \in 0 .. DICE_SIDES :
                  vrf_dice_roll_request_result(p, a, t) # "InsufficientLiquidity"

\* a stake that passes the BetTooLarge check has a worst-case payout within
\* the pool: on the current house ...
C32_Covered ==
    house.initialized =>
        \A a \in C32_Stakes : \A m \in C31_Multipliers :
            a <= max_bet => payout_lamports(a, m, house.house_edge_bps) <= house.pool

C32_Pools == {0, 1, 9, 10, 16, 17, 99, 100, 101, 167, 999, 1000, 1001, 30000}

\* ... and on pools and percentages the behaviours do not reach, computed
\* as the handlers compute the maximum bet and the worst-case payout
C32_Sweep ==
    \A pool \in C32_Pools, pct \in 1 .. MAX_BET_PERCENT_CAP, e \in {0, 1, MAX_HOUSE_EDGE_BPS} :
        LET most == (pool * pct) \div 100
        IN  \A a \in {0, most \div 2, most} : \A m \in C31_Multipliers :
                payout_lamports(a, m, e) <= pool

\* C32: for coin-flip and dice requests InsufficientLiquidity is
\* unreachable: with max_bet_percent <= 10 and a multiplier <= 600, every
\* stake that passes the BetTooLarge check has a worst-case payout <= pool.
Thm_C32 ==
    /\ C32_Unreachable
    /\ C32_Covered
    /\ (last.op = "none") => C32_Sweep

\* a dice request of the maximum bet (100 of a pool of 1000) was admitted
Wit_C32 ==
    /\ last.op = "vrf_dice_roll_request"
    /\ house.pool = 1000
    /\ vrf_request[last.id].amount = max_bet
    /\ vrf_request[last.id].choice = 3
    /\ worst_case_payout(vrf_request[last.id]) = 198
\* ---- C33 ---------------------------------------------------------------
\* the raw words at the top of the range, where the result is largest
C33_TopWords == [hi : 65400 .. 65535, lo : {0, 65535}]

\* the comparison of the limbo and crash settle handlers
C33_Won(result_multiplier, target_multiplier) == result_multiplier >= target_multiplier

\* the targets a request accepts that lie above 10000 - e
C33_HighTargets(e) ==
    {t \in MIN_TARGET_MULTIPLIER .. MAX_TARGET_MULTIPLIER : t > BPS_SCALE - e}

C33_Top ==
    \A raw \in C33_TopWords, e \in MapperEdges :
        /\ calculate_limbo_result(raw, e) <= BPS_SCALE - e
        /\ calculate_crash_point(raw, e) <= BPS_SCALE - e

\* C33: at house edge e <= 1000 the result multiplier of limbo and crash
\* is at most 10000 - e for every raw word, so a request with a target
\* above 10000 - e (accepted up to 10000) loses for every random value.
Thm_C33 ==
    /\ (calc = NoCalc) => C33_Top
    /\ (calc.op \in {"calculate_limbo_result", "calculate_crash_point"}
           /\ calc.house_edge_bps <= MAX_HOUSE_EDGE_BPS)
       => /\ calc.out <= BPS_SCALE - calc.house_edge_bps
          /\ \A t \in C33_HighTargets(calc.house_edge_bps) : ~C33_Won(calc.out, t)

\* the largest raw word at edge 100 gives 9900: the accepted target 10000
\* is out of reach
Wit_C33 ==
    /\ calc.op = "calculate_limbo_result"
    /\ calc.raw = [hi |-> 65535, lo |-> 65535]
    /\ calc.house_edge_bps = 100
    /\ calc.out = 9900
    /\ C33_HighTargets(100) = 9901 .. 10000
\* ---- C34 ---------------------------------------------------------------
\* the denominator both functions compute from a raw word
C34_Denominator(raw) == Max(BPS_SCALE - normalized_bps(raw), 0)

C34_Words == C33_TopWords \cup [hi : 0 .. 40, lo : {0, 65535}]

C34_Sweep ==
    \A raw \in C34_Words, e \in MapperEdges :
        /\ calculate_limbo_result(raw, e) = calculate_crash_point(raw, e)
        /\ ~(C34_Denominator(raw) = 0)
        /\ ~(C34_Denominator(raw) < 10)

\* C34: for every raw word and every edge in 0..1000,
\* calculate_limbo_result and calculate_crash_point return the same
\* multiplier, and neither guard (denominator == 0, denominator < 10) is
\* taken.
Thm_C34 ==
    /\ (calc = NoCalc) => C34_Sweep
    /\ (calc.op \in {"calculate_limbo_result", "calculate_crash_point"}
           /\ calc.house_edge_bps <= MAX_HOUSE_EDGE_BPS)
       => /\ calculate_limbo_result(calc.raw, calc.house_edge_bps) = calc.out
          /\ calculate_crash_point(calc.raw, calc.house_edge_bps) = calc.out
          /\ ~(C34_Denominator(calc.raw) = 0)
          /\ ~(C34_Denominator(calc.raw) < 10)

\* the largest raw word at the largest edge: the denominator is 100, the
\* closest it comes to the guards, and both functions give 9000
Wit_C34 ==
    /\ calc.op = "calculate_crash_point"
    /\ calc.raw = [hi |-> 65535, lo |-> 65535]
    /\ calc.house_edge_bps = MAX_HOUSE_EDGE_BPS
    /\ C34_Denominator(calc.raw) = 100
    /\ calc.out = 9000
    /\ calculate_limbo_result(calc.raw, calc.house_edge_bps) = 9000
\* ---- C35 ---------------------------------------------------------------
\* a Settle or Expire that names another account than the request's player
\* is refused, with InvalidCreatorAccount when the other accounts fit
C35_Rejects ==
    \A id \in ReqIds :
        LET req == vrf_request[id] IN
        is_pending(req) =>
            \A pa \in Players \ {req.player} :
                /\ \A k \in Keys :
                      expire_vrf_request_result(req, pa, k) = "InvalidCreatorAccount"
                /\ \A g \in GameTypes, ra \in RandomnessAccounts, o \in OracleResults :
                      /\ settle_result(g, req, ra, pa, o) # "Ok"
                      /\ (g = req.game_type /\ ra = req.randomness_account) =>
                            settle_result(g, req, ra, pa, o) = "InvalidCreatorAccount"

\* the answer of Expire does not depend on who calls it
C35_AnyCaller ==
    \A id \in ReqIds, pa \in Players, k1 \in Keys, k2 \in Keys :
        expire_vrf_request_result(vrf_request[id], pa, k1)
            = expire_vrf_request_result(vrf_request[id], pa, k2)

\* a committed Settle or Expire credits the request's player with the
\* payout or the refund, debits the house, and changes no other balance
C35_PaysCreator ==
    last'.op \in SettleOps \cup {"expire_vrf_request"} =>
        LET req == vrf_request[last'.id]
            new == vrf_request'[last'.id]
            paid == IF last'.op = "expire_vrf_request" THEN req.amount ELSE new.payout
        IN  /\ new.player = req.player
            /\ lamports'[req.player] = lamports[req.player] + paid
            /\ lamports'[HOUSE] = lamports[HOUSE] - paid
            /\ \A a \in Accounts \ {HOUSE, req.player} : lamports'[a] = lamports[a]

\* C35: Settle and Expire can be called by anyone but pay the request's
\* creator: the payout or refund goes to the account equal to
\* request.player and to no other, and a Settle or Expire naming another
\* player account is refused with InvalidCreatorAccount.
Thm_C35 == []C35_Rejects /\ []C35_AnyCaller /\ [][C35_PaysCreator]_vars

\* p2's coin flip of 100 was settled as a win: p2 holds the payout of 198 on
\* top of what was left, and the two other keys hold what they held
Wit_C35 ==
    /\ last.op = "vrf_coin_flip_settle"
    /\ vrf_request[last.id].player = "p2"
    /\ vrf_request[last.id].payout = 198
    /\ lamports["p2"] = InitialLamports - 100 + 198
    /\ lamports["p1"] = InitialLamports
    /\ lamports["auth"] = InitialLamports - 1000
\* ---- C36 ---------------------------------------------------------------
\* the game kind each Settle operation is declared for
C36_KindOf(op) ==
    IF op = "vrf_coin_flip_settle" THEN "CoinFlip"
    ELSE IF op = "vrf_dice_roll_settle" THEN "DiceRoll"
    ELSE IF op = "vrf_limbo_settle" THEN "Limbo"
    ELSE "Crash"

\* the Settle of another kind is refused with VrfInvalidRandomness on every
\* request account, whatever accounts and oracle value come with it
C36_Rejects ==
    \A id \in ReqIds :
        LET req == vrf_request[id] IN
        req.status \in {"Pending", "Settled", "Expired"} =>
            \A g \in GameTypes \ {req.game_type}, ra \in RandomnessAccounts,
               pa \in Players, o \in OracleResults :
                settle_result(g, req, ra, pa, o) = "VrfInvalidRandomness"

\* a committed Settle is the one of the request's kind, and no other step
\* settles a request or changes its kind
C36_OwnKind ==
    /\ last'.op \in SettleOps =>
          /\ vrf_request[last'.id].game_type = C36_KindOf(last'.op)
          /\ vrf_request'[last'.id].game_type = C36_KindOf(last'.op)
    /\ \A id \in ReqIds :
          (is_pending(vrf_request[id]) /\ vrf_request'[id].status = "Settled") =>
              (last'.op \in SettleOps /\ last'.id = id)

\* C36: a request is settled only by the Settle of its own game kind; the
\* coin-flip, dice, limbo or crash Settle applied to a request of another
\* kind is refused with VrfInvalidRandomness, so the request stays Pending
\* and no funds move.
Thm_C36 == []C36_Rejects /\ [][C36_OwnKind]_vars

\* a Pending limbo request with a revealed value: its own Settle would be
\* accepted, the three others are refused
Wit_C36 ==
    \E id \in ReqIds :
        LET req == vrf_request[id]
            o == Ready(<<255, 255, 255, 255>>)
        IN  /\ is_pending(req)
            /\ req.game_type = "Limbo"
            /\ settle_result("Limbo", req, req.randomness_account, req.player, o) = "Ok"
            /\ \A g \in {"CoinFlip", "DiceRoll", "Crash"} :
                  settle_result(g, req, req.randomness_account, req.player, o)
                      = "VrfInvalidRandomness"
\* ---- C37 ---------------------------------------------------------------
\* the request accounts that exist
C37_Exists(id) == vrf_request[id].status \in {"Pending", "Settled", "Expired"}

RECURSIVE C37_Stakes(_)
C37_Stakes(S) ==
    IF S = {} THEN 0
    ELSE LET id == CHOOSE x \in S : TRUE
         IN  (IF C37_Exists(id) THEN vrf_request[id].amount ELSE 0)
             + C37_Stakes(S \ {id})

\* no step lowers a counter
C37_Monotone ==
    /\ house'.total_games >= house.total_games
    /\ house'.total_volume >= house.total_volume
    /\ house'.total_payout >= house.total_payout

\* a Request counts one game and its stake, and records the game count it
\* found as its index
C37_Request ==
    last'.op \in RequestOps =>
        LET new == vrf_request'[last'.id] IN
        /\ house'.total_games = house.total_games + 1
        /\ house'.total_volume = house.total_volume + new.amount
        /\ house'.total_payout = house.total_payout
        /\ new.game_index = house.total_games
        /\ \A id \in ReqIds \ {last'.id} : vrf_request'[id] = vrf_request[id]

\* a Settle counts no game and no volume; an Expire changes no counter
C37_Resolve ==
    /\ last'.op \in SettleOps =>
          /\ house'.total_games = house.total_games
          /\ house'.total_volume = house.total_volume
          /\ house'.total_payout = house.total_payout + vrf_request'[last'.id].payout
          /\ vrf_request'[last'.id].game_index = vrf_request[last'.id].game_index
    /\ last'.op = "expire_vrf_request" =>
          /\ house'.total_games = house.total_games
          /\ house'.total_volume = house.total_volume
          /\ house'.total_payout = house.total_payout
          /\ vrf_request'[last'.id].game_index = vrf_request[last'.id].game_index

\* the indices of the existing requests differ and lie below the game
\* count; every request, the expired ones too, is counted in games and
\* volume
C37_Counted ==
    /\ \A a \in ReqIds, b \in ReqIds :
          (C37_Exists(a) /\ C37_Exists(b) /\ a # b) =>
              vrf_request[a].game_index # vrf_request[b].game_index
    /\ \A a \in ReqIds : C37_Exists(a) => vrf_request[a].game_index < house.total_games
    /\ house.total_games >= Cardinality({a \in ReqIds : C37_Exists(a)})
    /\ house.total_volume >= C37_Stakes(ReqIds)

\* C37: total_games, total_volume and total_payout never decrease; a
\* Request adds 1 to total_games and the stake to total_volume and records
\* game_index = total_games before the increment, so no two requests share
\* an index; Settle changes neither total_games nor total_volume, and
\* Expire rolls nothing back: an expired bet stays counted.
Thm_C37 ==
    /\ []C37_Counted
    /\ [][C37_Monotone /\ C37_Request /\ C37_Resolve]_vars

\* two requests with indices 0 and 1, the first expired and refunded, and
\* both still counted in games and volume
Wit_C37 ==
    /\ vrf_request[0].status = "Expired"
    /\ vrf_request[0].game_index = 0
    /\ C37_Exists(1)
    /\ vrf_request[1].game_index = 1
    /\ house.total_games = 2
    /\ house.total_volume = vrf_request[0].amount + vrf_request[1].amount
    /\ house.total_volume = 200
\* ---- C38 ---------------------------------------------------------------
C38_Left == challenge.status \in {"Completed", "Cancelled"}

\* as stated: once the challenge has left Open, every accept and every
\* cancel is refused with ChallengeNotOpen
C38_AsStated ==
    C38_Left =>
        /\ \A a \in Players, c \in Players :
              accept_challenge_result(a, c) = "ChallengeNotOpen"
        /\ \A p \in Players : cancel_challenge_result(p) = "ChallengeNotOpen"

\* C38 (as stated): every later accept or cancel fails with
\* ChallengeNotOpen.
Cex_C38 == C38_AsStated

\* once the challenge has left Open every accept is refused with
\* ChallengeNotOpen; a cancel is refused with ChallengeNotOpen when the
\* challenger signs it and with NotChallengeOwner when another key does
C38_Closed ==
    C38_Left =>
        /\ \A a \in Players, c \in Players :
              accept_challenge_result(a, c) = "ChallengeNotOpen"
        /\ \A p \in Players :
              cancel_challenge_result(p) =
                  IF p = challenge.challenger THEN "ChallengeNotOpen"
                  ELSE "NotChallengeOwner"

\* on an Open challenge only the challenger can cancel, and the challenger
\* cannot accept
C38_Open ==
    challenge.status = "Open" =>
        /\ \A p \in Players :
              cancel_challenge_result(p) =
                  IF p = challenge.challenger THEN "Ok" ELSE "NotChallengeOwner"
        /\ accept_challenge_result(challenge.challenger, challenge.challenger)
              = "CannotAcceptOwnChallenge"
        /\ \A a \in Players, c \in Players :
              accept_challenge_result(a, c) = "Ok" =>
                  (a # challenge.challenger /\ c = challenge.challenger)

\* the challenge leaves Open in one accept or one cancel and never changes
\* again; the accept pays the pot of twice the stake to the winner and the
\* house, the cancel pays the stake back to the challenger
C38_Once ==
    /\ C38_Left => challenge' = challenge
    /\ (challenge.status = "Open" /\ challenge'.status # "Open") =>
          last'.op \in {"accept_challenge", "cancel_challenge"}
    /\ last'.op = "accept_challenge" =>
          LET amount == challenge.amount
              take == lamports'[HOUSE] - lamports[HOUSE]
              w == challenge'.winner
              stake == IF w = challenge'.acceptor THEN amount ELSE 0
              won == lamports'[w] - lamports[w] + stake
          IN  /\ challenge.status = "Open"
              /\ challenge'.status = "Completed"
              /\ challenge'.acceptor # challenge.challenger
              /\ w \in {challenge.challenger, challenge'.acceptor}
              /\ take >= 0
              /\ won + take = 2 * amount
              /\ lamports[CHALLENGE] = amount
              /\ lamports'[CHALLENGE] = 0
              /\ lamports'[challenge'.acceptor] + lamports'[challenge.challenger]
                   + take
                 = lamports[challenge'.acceptor] + lamports[challenge.challenger] + amount
    /\ last'.op = "cancel_challenge" =>
          /\ challenge.status = "Open"
          /\ challenge'.status = "Cancelled"
          /\ lamports' = [lamports EXCEPT ![CHALLENGE] = 0,
                                          ![challenge.challenger] = @ + challenge.amount]
          /\ lamports[CHALLENGE] = challenge.amount
          /\ house' = house

\* C38 (amended): a challenge leaves Open at most once, by accept_challenge
\* (to Completed) or cancel_challenge (to Cancelled); every later accept
\* fails with ChallengeNotOpen, every later cancel with ChallengeNotOpen
\* when signed by the challenger and NotChallengeOwner otherwise; only the
\* challenger can cancel, the challenger cannot accept, and the escrow is
\* paid out once (winner payout + house take = 2 x amount, refund = amount).
Thm_C38 == []C38_Closed /\ []C38_Open /\ [][C38_Once]_vars

\* a completed challenge of 100 at edge 100: the house took 2, the winner
\* 198, the escrow is empty, and both keys are refused a cancel
Wit_C38 ==
    /\ last.op = "accept_challenge"
    /\ challenge.status = "Completed"
    /\ challenge.amount = 100
    /\ lamports[CHALLENGE] = 0
    /\ lamports[challenge.winner] = InitialLamports + 98
    /\ cancel_challenge_result(challenge.challenger) = "ChallengeNotOpen"
    /\ cancel_challenge_result(challenge.acceptor) = "NotChallengeOwner"
====
